---- MODULE Spec2Model ----
(***************************************************************************)
(* A model of the EPUB-to-print-PDF converter's style cascade engine       *)
(* (src/lib/cssToReactPdf.ts): unit conversion, declaration mapping, the   *)
(* construction of the four-bucket style map and the element lookup; and   *)
(* of its markup tree builder (src/unnamed/part_000): parseHtmlToTree;     *)
(* of the chapter loop of parseEpub and the document convertEpubToPdf      *)
(* renders (src/app/actions/convert.tsx); and of the conversion page       *)
(* (src/app/page.tsx).                                                     *)
(*                                                                         *)
(* A JavaScript string is a TLA+ string (a sequence of characters); the    *)
(* character at position i of s is At(s, i).      A JavaScript value of    *)
(* a style object is a record whose single field names its type:           *)
(*   [str |-> s]            a string                                       *)
(*   [num |-> m, exp |-> e] the number m * 10^(-e), in lowest form         *)
(*   [obj |-> f]            a nested style object (a function on keys)     *)
(*   [arr |-> q]            an array                                       *)
(* null and undefined are the records Null and Undefined.                  *)
(***************************************************************************)
EXTENDS Integers, Sequences, FiniteSets, TLC

VARIABLES
    pc,         \* position of parseCssToReactPdf / its caller
    styleMap,   \* the StyleMap being built: four buckets
    log,        \* history: the rules processRule has been entered with, in order
    lastConv,   \* history: the conversions parseDeclarationBlock made for the last rule
    failed,     \* whether the catch clause of parseCssToReactPdf has run
    looked,     \* the last getStylesForElement call: its arguments and result
    mProperty,  \* convertProperty: the cssProperty argument
    mTokens,    \* the tokens the cssValue argument is made of
    mSep,       \* the white space that separates the tokens in cssValue
    mResult,    \* convertProperty: the result, Pending before the call
    callee,     \* a call of convertUnit, parseTransform or convertProperty: the function
    callArgs,   \* the parts its arguments are made of
    returned,   \* what it returned, Pending before the call
    pieces,     \* parseHtmlToTree: the pieces the html argument is made of
    treePc,     \* position of parseHtmlToTree: "called", "scan", "done" ("idle": no call)
    scan,       \* parseElement(bodyHtml, 'body', []): html, lastIndex, stack, children, match
    popped,     \* history: the frames that call popped, each with its slice and its node
    built,      \* what parseHtmlToTree returned, Pending before it returns
    spineItems, \* parseEpub: the spine of the EPUB, the idrefs in order
    epubPc,     \* position of convertEpubToPdf: "spine", "parsed", "done" ("idle": no call)
    itemIndex,  \* the number of spine items the loop of parseEpub has taken
    chapters,   \* parseEpub: the chapters array
    visited,    \* history: for each spine item taken, what the loop did with it
    convertResult,  \* what convertEpubToPdf returned, Pending before it returns
    file,       \* page: the file state, null or the selected File
    pageSize,   \* page: the pageSize state
    status,     \* page: the status state
    isConverting,   \* page: the isConverting state
    pdfData,    \* page: the pdfData state, null or the PDF of a conversion
    inFlight,   \* the call of convertEpubToPdf handleConvert awaits: its formData, or null
    submitted,  \* history: the formData and the result of each call that returned
    shown       \* the first blob the page handed to the browser: a preview or a download

vars == <<pc, styleMap, log, lastConv, failed, looked,
          mProperty, mTokens, mSep, mResult,
          callee, callArgs, returned,
          pieces, treePc, scan, popped, built,
          spineItems, epubPc, itemIndex, chapters, visited, convertResult,
          file, pageSize, status, isConverting, pdfData, inFlight, submitted, shown>>

buildVars == <<pc, styleMap, log, lastConv, failed, looked>>
mapVars == <<mProperty, mTokens, mSep, mResult>>
callVars == <<callee, callArgs, returned>>
treeVars == <<pieces, treePc, scan, popped, built>>
epubVars == <<spineItems, epubPc, itemIndex, chapters, visited, convertResult>>
pageVars == <<file, pageSize, status, isConverting, pdfData, inFlight, submitted, shown>>

\* what a build, a call of the mapper, a call of a function, a call of
\* parseHtmlToTree, a call of convertEpubToPdf and the page leave alone
outsideBuild == <<mapVars, callVars, treeVars, epubVars, pageVars>>
outsideMap == <<buildVars, callVars, treeVars, epubVars, pageVars>>
outsideCall == <<buildVars, mapVars, treeVars, epubVars, pageVars>>
outsideTree == <<buildVars, mapVars, callVars, epubVars, pageVars>>
outsideEpub == <<buildVars, mapVars, callVars, treeVars, pageVars>>
outsidePage == <<buildVars, mapVars, callVars, treeVars, epubVars>>

-----------------------------------------------------------------------------
(* JavaScript values *)

Null == [null |-> TRUE]
Undefined == [undefined |-> TRUE]
NaN == [nan |-> TRUE]
Pending == [pending |-> TRUE]
Idle == [idle |-> TRUE]
Str(s) == [str |-> s]
Obj(f) == [obj |-> f]
Arr(q) == [arr |-> q]
EmptyObject == [k \in {} |-> Null]

IsStr(v) == "str" \in DOMAIN v
IsNum(v) == "num" \in DOMAIN v
IsObj(v) == "obj" \in DOMAIN v

RECURSIVE Normalize(_, _)
Normalize(m, e) ==
    IF m = 0 THEN [num |-> 0, exp |-> 0]
    ELSE IF e > 0 /\ m % 10 = 0 THEN Normalize(m \div 10, e - 1)
    ELSE [num |-> m, exp |-> e]

Num(m, e) == Normalize(m, e)
Times(a, b) == Normalize(a.num * b.num, a.exp + b.exp)

\* JavaScript truthiness of a value
Truthy(v) ==
    CASE v = Null -> FALSE
      [] v = Undefined -> FALSE
      [] v = NaN -> FALSE
      [] IsStr(v) -> v.str # ""
      [] IsNum(v) -> v.num # 0
      [] OTHER -> TRUE

-----------------------------------------------------------------------------
(* JavaScript strings *)

\* s.slice(i - 1, j) for 1-based, inclusive positions: out-of-range ends are clamped
Clamped(s, lo, hi) == IF lo > hi THEN "" ELSE SubSeq(s, lo, hi)
slice(s, i, j) ==
    Clamped(s, IF i < 1 THEN 1 ELSE i, IF j > Len(s) THEN Len(s) ELSE j)

At(s, i) == slice(s, i, i)
From(s, i) == slice(s, i, Len(s))

Digits == "0123456789"
Lowers == "abcdefghijklmnopqrstuvwxyz"
Uppers == "ABCDEFGHIJKLMNOPQRSTUVWXYZ"

CharsOf(s) == {At(s, i) : i \in 1..Len(s)}
IndexIn(s, c) == CHOOSE i \in 1..Len(s) : At(s, i) = c

DigitChars == CharsOf(Digits)
LowerChars == CharsOf(Lowers)
UpperChars == CharsOf(Uppers)

IsDigit(c) == c \in DigitChars
IsLower(c) == c \in LowerChars
IsUpper(c) == c \in UpperChars
IsAlpha(c) == IsLower(c) \/ IsUpper(c)
\* \w of a regular expression
IsWord(c) == IsAlpha(c) \/ IsDigit(c) \/ c = "_"
\* \s of a regular expression, and what trim() removes
IsSpace(c) == c \in {" ", "\t", "\n", "\r", "\f"}

DigitVal(c) == IndexIn(Digits, c) - 1
UpperOf(c) == IF IsLower(c) THEN At(Uppers, IndexIn(Lowers, c)) ELSE c
LowerOf(c) == IF IsUpper(c) THEN At(Lowers, IndexIn(Uppers, c)) ELSE c

AllDigits(s) == \A i \in 1..Len(s) : IsDigit(At(s, i))

\* s.toLowerCase(): each half of s in lower case
RECURSIVE toLowerCase(_)
toLowerCase(s) ==
    IF Len(s) <= 1 THEN LowerOf(s)
    ELSE toLowerCase(slice(s, 1, Len(s) \div 2))
         \o toLowerCase(slice(s, Len(s) \div 2 + 1, Len(s)))

startsWith(s, p) == Len(s) >= Len(p) /\ slice(s, 1, Len(p)) = p
endsWith(s, p) == Len(s) >= Len(p) /\ slice(s, Len(s) - Len(p) + 1, Len(s)) = p

\* the least position of a set of positions, 0 when the set is empty
First(hits) == IF hits = {} THEN 0 ELSE CHOOSE i \in hits : \A j \in hits : i <= j

\* s.indexOf(p), 1-based; 0 when p does not occur (JavaScript: -1)
indexOf(s, p) ==
    First({i \in 1..(Len(s) - Len(p) + 1) : slice(s, i, i + Len(p) - 1) = p})

RECURSIVE trimStart(_)
trimStart(s) ==
    IF s # "" /\ IsSpace(Head(s)) THEN trimStart(Tail(s)) ELSE s

RECURSIVE trimEnd(_)
trimEnd(s) ==
    IF s # "" /\ IsSpace(At(s, Len(s))) THEN trimEnd(slice(s, 1, Len(s) - 1)) ELSE s

trim(s) == trimEnd(trimStart(s))

\* s.split(c) for a one-character separator c
RECURSIVE split(_, _)
splitAt(s, c, i) ==
    IF i = 0 THEN <<s>>
    ELSE <<slice(s, 1, i - 1)>> \o split(From(s, i + 1), c)
split(s, c) == splitAt(s, c, indexOf(s, c))

\* s.split(/\s+/): every maximal run of white space is one separator
RECURSIVE splitSpaces(_, _)
splitSpaces(s, cur) ==
    IF s = "" THEN <<cur>>
    ELSE IF IsSpace(Head(s)) THEN <<cur>> \o splitSpaces(trimStart(s), "")
    ELSE splitSpaces(Tail(s), cur \o Head(s))

\* s.replace(/\s+/g, ' ')
RECURSIVE collapseSpaces(_)
collapseSpaces(s) ==
    IF s = "" THEN ""
    ELSE IF IsSpace(Head(s)) THEN " " \o collapseSpaces(trimStart(s))
    ELSE Head(s) \o collapseSpaces(Tail(s))

RECURSIVE DigitsValue(_, _)
DigitsValue(s, acc) ==
    IF s = "" THEN acc ELSE DigitsValue(Tail(s), 10 * acc + DigitVal(Head(s)))

\* the longest prefix of s made of digits
RECURSIVE DigitPrefix(_)
DigitPrefix(s) ==
    IF s # "" /\ IsDigit(Head(s)) THEN Head(s) \o DigitPrefix(Tail(s)) ELSE ""

Unsigned(s) == IF startsWith(s, "-") THEN Tail(s) ELSE s

\* what follows the leading digits of u
AfterDigits(u) == From(u, Len(DigitPrefix(u)) + 1)

\* (\.\d+)?$
IsFraction(rest) ==
    \/ rest = ""
    \/ /\ startsWith(rest, ".")
       /\ Len(rest) >= 2
       /\ AllDigits(Tail(rest))

\* \.?\d*$
IsOpenFraction(rest) ==
    \/ rest = ""
    \/ startsWith(rest, ".") /\ AllDigits(Tail(rest))

\* /^-?\d+(\.\d+)?$/
IsPureNumber(s) ==
    /\ DigitPrefix(Unsigned(s)) # ""
    /\ IsFraction(AfterDigits(Unsigned(s)))

\* /^(-?\d+\.?\d*)$/, the coefficient in front of a unit
IsCoefficient(s) ==
    /\ DigitPrefix(Unsigned(s)) # ""
    /\ IsOpenFraction(AfterDigits(Unsigned(s)))

\* the number with the digits int before and frac after the decimal point
Decimal(int, frac) == Num(DigitsValue(int \o frac, 0), Len(frac))

Negated(neg, mag) == IF neg THEN [num |-> 0 - mag.num, exp |-> mag.exp] ELSE mag

\* the digits after the decimal point that rest starts with
FractionDigits(rest) == IF startsWith(rest, ".") THEN DigitPrefix(Tail(rest)) ELSE ""

FloatOf(s, u) ==
    IF DigitPrefix(u) = "" THEN NaN
    ELSE Negated(startsWith(s, "-"),
                 Decimal(DigitPrefix(u), FractionDigits(AfterDigits(u))))

FloatOfTrimmed(s) == FloatOf(s, Unsigned(s))

\* parseFloat of the longest prefix of s of the form -?\d+(\.\d*)? : the decimal
\* number exactly (binary rounding is not modelled); NaN when there is none.
\* Exponents and a leading "." or "+" do not occur in the inputs drawn.
parseFloat(s0) == FloatOfTrimmed(trimStart(s0))

IntOf(neg, int) ==
    IF int = "" THEN NaN ELSE Negated(neg, Num(DigitsValue(int, 0), 0))

IntOfTrimmed(s) ==
    IntOf(startsWith(s, "-"),
          DigitPrefix(IF startsWith(s, "-") \/ startsWith(s, "+") THEN Tail(s) ELSE s))

\* parseInt(s) without a radix: white space, a sign, then decimal digits.
\* A "0x" prefix (hexadecimal) does not occur in the inputs drawn.
parseInt(s0) == IntOfTrimmed(trimStart(s0))

-----------------------------------------------------------------------------
(* SUPPORTED PROPERTIES and the property name mapping *)

SUPPORTED_PROPERTIES ==
    {"alignContent", "alignItems", "alignSelf", "flex", "flexDirection",
     "flexWrap", "flexFlow", "flexGrow", "flexShrink", "flexBasis",
     "justifyContent", "gap", "rowGap", "columnGap", "bottom", "display",
     "left", "position", "right", "top", "overflow", "zIndex", "height",
     "maxHeight", "maxWidth", "minHeight", "minWidth", "width",
     "backgroundColor", "color", "opacity", "letterSpacing", "maxLines",
     "textAlign", "textDecoration", "textDecorationColor",
     "textDecorationStyle", "textIndent", "textOverflow", "textTransform",
     "objectFit", "objectPosition", "margin", "marginHorizontal",
     "marginVertical", "marginTop", "marginRight", "marginBottom",
     "marginLeft", "padding", "paddingHorizontal", "paddingVertical",
     "paddingTop", "paddingRight", "paddingBottom", "paddingLeft",
     "transform", "transformOrigin", "border", "borderColor", "borderStyle",
     "borderWidth", "borderTop", "borderTopColor", "borderTopStyle",
     "borderTopWidth", "borderRight", "borderRightColor",
     "borderRightStyle", "borderRightWidth", "borderBottom",
     "borderBottomColor", "borderBottomStyle", "borderBottomWidth",
     "borderLeft", "borderLeftColor", "borderLeftStyle", "borderLeftWidth",
     "borderTopLeftRadius", "borderTopRightRadius",
     "borderBottomRightRadius", "borderBottomLeftRadius"}

PROPERTY_MAP ==
    ("text-indent" :> "textIndent") @@
    ("text-align" :> "textAlign") @@
    ("text-decoration" :> "textDecoration") @@
    ("text-decoration-color" :> "textDecorationColor") @@
    ("text-decoration-style" :> "textDecorationStyle") @@
    ("text-transform" :> "textTransform") @@
    ("text-overflow" :> "textOverflow") @@
    ("letter-spacing" :> "letterSpacing") @@
    ("max-lines" :> "maxLines") @@
    ("background-color" :> "backgroundColor") @@
    ("object-fit" :> "objectFit") @@
    ("object-position" :> "objectPosition") @@
    ("margin-top" :> "marginTop") @@
    ("margin-right" :> "marginRight") @@
    ("margin-bottom" :> "marginBottom") @@
    ("margin-left" :> "marginLeft") @@
    ("padding-top" :> "paddingTop") @@
    ("padding-right" :> "paddingRight") @@
    ("padding-bottom" :> "paddingBottom") @@
    ("padding-left" :> "paddingLeft") @@
    ("transform" :> "transform") @@
    ("transform-origin" :> "transformOrigin") @@
    ("border-color" :> "borderColor") @@
    ("border-style" :> "borderStyle") @@
    ("border-width" :> "borderWidth") @@
    ("border-top" :> "borderTop") @@
    ("border-top-color" :> "borderTopColor") @@
    ("border-top-style" :> "borderTopStyle") @@
    ("border-top-width" :> "borderTopWidth") @@
    ("border-right" :> "borderRight") @@
    ("border-right-color" :> "borderRightColor") @@
    ("border-right-style" :> "borderRightStyle") @@
    ("border-right-width" :> "borderRightWidth") @@
    ("border-bottom" :> "borderBottom") @@
    ("border-bottom-color" :> "borderBottomColor") @@
    ("border-bottom-style" :> "borderBottomStyle") @@
    ("border-bottom-width" :> "borderBottomWidth") @@
    ("border-left" :> "borderLeft") @@
    ("border-left-color" :> "borderLeftColor") @@
    ("border-left-style" :> "borderLeftStyle") @@
    ("border-left-width" :> "borderLeftWidth") @@
    ("border-top-left-radius" :> "borderTopLeftRadius") @@
    ("border-top-right-radius" :> "borderTopRightRadius") @@
    ("border-bottom-right-radius" :> "borderBottomRightRadius") @@
    ("border-bottom-left-radius" :> "borderBottomLeftRadius") @@
    ("max-width" :> "maxWidth") @@
    ("max-height" :> "maxHeight") @@
    ("min-width" :> "minWidth") @@
    ("min-height" :> "minHeight") @@
    ("flex-direction" :> "flexDirection") @@
    ("flex-wrap" :> "flexWrap") @@
    ("flex-flow" :> "flexFlow") @@
    ("flex-grow" :> "flexGrow") @@
    ("flex-shrink" :> "flexShrink") @@
    ("flex-basis" :> "flexBasis") @@
    ("justify-content" :> "justifyContent") @@
    ("align-items" :> "alignItems") @@
    ("align-self" :> "alignSelf") @@
    ("align-content" :> "alignContent") @@
    ("row-gap" :> "rowGap") @@
    ("column-gap" :> "columnGap") @@
    ("z-index" :> "zIndex") @@
    ("margin" :> "margin") @@
    ("padding" :> "padding") @@
    ("border" :> "border") @@
    ("width" :> "width") @@
    ("height" :> "height") @@
    ("top" :> "top") @@
    ("right" :> "right") @@
    ("bottom" :> "bottom") @@
    ("left" :> "left") @@
    ("position" :> "position") @@
    ("display" :> "display") @@
    ("overflow" :> "overflow") @@
    ("opacity" :> "opacity") @@
    ("color" :> "color") @@
    ("flex" :> "flex") @@
    ("gap" :> "gap")


\* Base font size for em conversion
BASE_FONT_SIZE_PT == 11

-----------------------------------------------------------------------------
(* UNIT CONVERSION *)

\* what precedes the unit in a token that ends in it
Coefficient(trimmed, unit) == slice(trimmed, 1, Len(trimmed) - Len(unit))

\* the coefficient of a token that ends in the unit, or Null: /^(-?\d+\.?\d*)unit$/
UnitMatch(trimmed, unit) ==
    IF endsWith(trimmed, unit) /\ IsCoefficient(Coefficient(trimmed, unit))
    THEN Str(Coefficient(trimmed, unit)) ELSE Null

\* the units in the order convertUnit tries them, each with the factor its
\* coefficient is multiplied by; Null for pt, whose coefficient is returned as it is
UnitFactors ==
    <<[unit |-> "em", factor |-> Num(BASE_FONT_SIZE_PT, 0)],
      [unit |-> "rem", factor |-> Num(BASE_FONT_SIZE_PT, 0)],
      [unit |-> "px", factor |-> Num(75, 2)],
      [unit |-> "pt", factor |-> Null],
      [unit |-> "in", factor |-> Num(72, 0)],
      [unit |-> "mm", factor |-> Num(283465, 5)],
      [unit |-> "cm", factor |-> Num(283465, 4)]>>

\* a conversion that returns the coefficient of every unit as it is
Scaled_unscaled(match, factor) == parseFloat(match.str)

\* parseFloat(match[1]) * factor
Scaled(match, factor) ==
    IF factor = Null THEN parseFloat(match.str)
    ELSE Times(parseFloat(match.str), factor)

\* the unit tests of convertUnit from the i-th on; a token no unit matches is
\* returned trimmed, whether or not it ends in vw or vh
RECURSIVE ConvertFromUnit(_, _)
ConvertFromUnit(trimmed, i) ==
    IF i > Len(UnitFactors)
    THEN (IF endsWith(trimmed, "vw") \/ endsWith(trimmed, "vh")
          THEN Str(trimmed) ELSE Str(trimmed))
    ELSE IF UnitMatch(trimmed, UnitFactors[i].unit) # Null
    THEN Scaled(UnitMatch(trimmed, UnitFactors[i].unit), UnitFactors[i].factor)
    ELSE ConvertFromUnit(trimmed, i + 1)

ConvertTrimmed(trimmed) ==
    IF IsPureNumber(trimmed) THEN parseFloat(trimmed)
    ELSE IF endsWith(trimmed, "%") THEN Str(trimmed)
    ELSE ConvertFromUnit(trimmed, 1)

\* a conversion that does not trim its argument
convertUnit_untrimmed(value) ==
    IF value = "" \/ value \in {"inherit", "initial", "unset", "auto"} THEN Str(value)
    ELSE ConvertTrimmed(value)

convertUnit(value) ==
    IF value = "" \/ value \in {"inherit", "initial", "unset", "auto"} THEN Str(value)
    ELSE ConvertTrimmed(trim(value))

-----------------------------------------------------------------------------
(* TRANSFORM PARSING *)

\* the end of the maximal run of word characters of s that starts at i
RECURSIVE WordEnd(_, _)
WordEnd(s, i) ==
    IF i < Len(s) /\ IsWord(At(s, i + 1)) THEN WordEnd(s, i + 1) ELSE i

\* whether \(([^)]+)\) matches s right after position j
ArgumentsAfter(s, j) ==
    /\ j + 1 <= Len(s)
    /\ At(s, j + 1) = "("
    /\ indexOf(From(s, j + 2), ")") >= 2

\* whether /(\w+)\(([^)]+)\)/ matches s at position i
TransformMatchAt(s, i) ==
    /\ IsWord(At(s, i))
    /\ ArgumentsAfter(s, WordEnd(s, i))

mapTrim(q) == [i \in DOMAIN q |-> trim(q[i])]

OrDefault(v, d) == IF Truthy(v) THEN v ELSE d

TransformOp(name, arg) == [name |-> name, arg |-> arg]

\* the operations one function call of a transform value pushes; floats and
\* units are parseFloat and convertUnit of the arguments
TransformOps(funcName, args, floats, units) ==
    CASE funcName = "rotate" -> <<TransformOp("rotate", Str(args[1]))>>
      [] funcName = "scale" ->
            IF Len(args) = 1
            THEN <<TransformOp("scale", OrDefault(floats[1], Num(1, 0)))>>
            ELSE <<TransformOp("scaleX", OrDefault(floats[1], Num(1, 0))),
                   TransformOp("scaleY", OrDefault(floats[2], Num(1, 0)))>>
      [] funcName = "scaleX" -> <<TransformOp("scaleX", OrDefault(floats[1], Num(1, 0)))>>
      [] funcName = "scaleY" -> <<TransformOp("scaleY", OrDefault(floats[1], Num(1, 0)))>>
      [] funcName = "translate" ->
            (IF Len(args) >= 1 THEN <<TransformOp("translateX", units[1])>> ELSE <<>>)
            \o (IF Len(args) >= 2 THEN <<TransformOp("translateY", units[2])>> ELSE <<>>)
      [] funcName = "translateX" -> <<TransformOp("translateX", units[1])>>
      [] funcName = "translateY" -> <<TransformOp("translateY", units[1])>>
      [] funcName = "skew" ->
            (IF Len(args) >= 1 THEN <<TransformOp("skewX", Str(args[1]))>> ELSE <<>>)
            \o (IF Len(args) >= 2 THEN <<TransformOp("skewY", Str(args[2]))>> ELSE <<>>)
      [] funcName = "skewX" -> <<TransformOp("skewX", Str(args[1]))>>
      [] funcName = "skewY" -> <<TransformOp("skewY", Str(args[1]))>>
      [] funcName = "matrix" ->
            IF Len(args) = 6
            THEN <<TransformOp("matrix",
                    Arr([i \in 1..6 |-> OrDefault(floats[i], Num(0, 0))]))>>
            ELSE <<>>
      [] OTHER -> <<>>

\* args = match[2].split(',').map(a => a.trim()), and the switch on funcName
TransformCall(funcName, args) ==
    TransformOps(funcName, args,
                 [i \in DOMAIN args |-> parseFloat(args[i])],
                 [i \in DOMAIN args |-> convertUnit(args[i])])

\* the loop over regex.exec(cssValue), from position pos
RECURSIVE TransformScan(_, _)

\* a scan that gives the operations of the later calls first
TransformArguments_reversed(s, i, j, close) ==
    TransformScan(s, j + close + 2)
    \o TransformCall(slice(s, i, j), mapTrim(split(slice(s, j + 2, j + close), ",")))

\* the match whose name ends at j and whose ")" is the close-th character
\* after the "(", and the matches after it
TransformArguments(s, i, j, close) ==
    TransformCall(slice(s, i, j), mapTrim(split(slice(s, j + 2, j + close), ",")))
    \o TransformScan(s, j + close + 2)

TransformName(s, i, j) == TransformArguments(s, i, j, indexOf(From(s, j + 2), ")"))

\* the leftmost match, which starts at i, and the matches after it
TransformFrom(s, i) ==
    IF i = 0 THEN <<>> ELSE TransformName(s, i, WordEnd(s, i))

TransformScan(s, pos) ==
    TransformFrom(s, First({i \in pos..Len(s) : TransformMatchAt(s, i)}))

Transforms(transforms) == IF Len(transforms) > 0 THEN Arr(transforms) ELSE Null

parseTransform(cssValue) == Transforms(TransformScan(cssValue, 1))

-----------------------------------------------------------------------------
(* MARGIN/PADDING SHORTHAND HANDLING *)

Pair(key, value) == [key |-> key, value |-> value]
Multiple(items) == [multiple |-> items]
IsMultiple(r) == "multiple" \in DOMAIN r

mapConvertUnit(raw) == [i \in DOMAIN raw |-> convertUnit(raw[i])]

\* value.split(/\s+/).map(v => convertUnit(v))
BoxParts(value) == mapConvertUnit(splitSpaces(value, ""))

\* an expansion that gives the horizontal sides before the vertical ones
BoxPairs_swapped(property, prefix, parts) ==
    IF Len(parts) = 1 THEN Pair(property, parts[1])
    ELSE IF Len(parts) = 2
    THEN Multiple(<<Pair(prefix \o "Horizontal", parts[1]),
                    Pair(prefix \o "Vertical", parts[2])>>)
    ELSE IF Len(parts) = 3
    THEN Multiple(<<Pair(prefix \o "Top", parts[1]),
                    Pair(prefix \o "Horizontal", parts[2]),
                    Pair(prefix \o "Bottom", parts[3])>>)
    ELSE IF Len(parts) = 4
    THEN Multiple(<<Pair(prefix \o "Top", parts[1]),
                    Pair(prefix \o "Left", parts[2]),
                    Pair(prefix \o "Bottom", parts[3]),
                    Pair(prefix \o "Right", parts[4])>>)
    ELSE Pair(property, parts[1])

\* the 1-value, 2-value, 3-value and 4-value forms, and the fallback
BoxPairs(property, prefix, parts) ==
    IF Len(parts) = 1 THEN Pair(property, parts[1])
    ELSE IF Len(parts) = 2
    THEN Multiple(<<Pair(prefix \o "Vertical", parts[1]),
                    Pair(prefix \o "Horizontal", parts[2])>>)
    ELSE IF Len(parts) = 3
    THEN Multiple(<<Pair(prefix \o "Top", parts[1]),
                    Pair(prefix \o "Horizontal", parts[2]),
                    Pair(prefix \o "Bottom", parts[3])>>)
    ELSE IF Len(parts) = 4
    THEN Multiple(<<Pair(prefix \o "Top", parts[1]),
                    Pair(prefix \o "Right", parts[2]),
                    Pair(prefix \o "Bottom", parts[3]),
                    Pair(prefix \o "Left", parts[4])>>)
    ELSE Pair(property, parts[1])

convertBoxShorthand(property, value) == BoxPairs(property, property, BoxParts(value))

-----------------------------------------------------------------------------
(* PROPERTY CONVERSION *)

\* str.replace(/-([a-z])/g, (_, letter) => letter.toUpperCase())
RECURSIVE camelCase(_)
camelCase(str) ==
    IF str = "" THEN ""
    ELSE IF Len(str) >= 2 /\ Head(str) = "-" /\ IsLower(At(str, 2))
    THEN UpperOf(At(str, 2)) \o camelCase(From(str, 3))
    ELSE Head(str) \o camelCase(Tail(str))

\* a support test that does not exclude the font properties
IsSupported_fontsToo(reactPdfKey) ==
    reactPdfKey \in SUPPORTED_PROPERTIES
                    \cup {"fontWeight", "fontStyle", "fontSize", "fontFamily", "lineHeight"}

\* a support test that accepts every key
IsSupported_any(reactPdfKey) == TRUE

\* SUPPORTED_PROPERTIES.has(reactPdfKey)
IsSupported(reactPdfKey) == reactPdfKey \in SUPPORTED_PROPERTIES

\* a mapper that honours every display value, 'none' included
convertDisplay_honoured(reactPdfKey, cssValue) == Pair(reactPdfKey, Str(cssValue))

\* case 'display': only 'flex' is kept, 'none' is ignored to preserve text
convertDisplay(reactPdfKey, cssValue) ==
    IF cssValue = "flex" THEN Pair(reactPdfKey, Str("flex")) ELSE Null

\* PROPERTY_MAP[cssProperty] || camelCase(cssProperty)
ReactPdfKey(map, cssProperty) ==
    IF cssProperty \in DOMAIN map THEN map[cssProperty] ELSE camelCase(cssProperty)

\* isNaN(numWeight) ? cssValue : numWeight
WeightValue(cssValue, numWeight) == IF numWeight # NaN THEN numWeight ELSE Str(cssValue)

\* transforms ? { key: 'transform', value: transforms } : null
TransformResult(transforms) ==
    IF transforms # Null THEN Pair("transform", transforms) ELSE Null

\* convertProperty from its support test on, reactPdfKey being resolved
ConvertKey(cssProperty, reactPdfKey, cssValue) ==
        IF ~IsSupported(reactPdfKey) THEN Null
        ELSE IF toLowerCase(trim(cssValue)) \in {"inherit", "initial", "unset", "revert"}
        THEN Null
        ELSE CASE cssProperty = "font-weight" ->
                    IF cssValue = "bold" THEN Pair(reactPdfKey, Str("bold"))
                    ELSE IF cssValue = "normal" THEN Pair(reactPdfKey, Str("normal"))
                    ELSE Pair(reactPdfKey, WeightValue(cssValue, parseInt(cssValue)))
               [] cssProperty = "font-style" -> Pair(reactPdfKey, Str(cssValue))
               [] cssProperty = "text-align" ->
                    IF cssValue \in {"left", "right", "center", "justify"}
                    THEN Pair(reactPdfKey, Str(cssValue)) ELSE Null
               [] cssProperty = "text-decoration" ->
                    IF cssValue \in {"none", "underline", "line-through",
                                     "underline line-through"}
                    THEN Pair(reactPdfKey, Str(cssValue)) ELSE Null
               [] cssProperty = "text-transform" ->
                    IF cssValue \in {"none", "uppercase", "lowercase", "capitalize"}
                    THEN Pair(reactPdfKey, Str(cssValue)) ELSE Null
               [] cssProperty = "display" -> convertDisplay(reactPdfKey, cssValue)
               [] cssProperty = "position" ->
                    IF cssValue \in {"absolute", "relative"}
                    THEN Pair(reactPdfKey, Str(cssValue)) ELSE Null
               [] cssProperty = "line-height" -> Pair(reactPdfKey, convertUnit(cssValue))
               [] cssProperty \in {"margin", "padding"} ->
                    convertBoxShorthand(reactPdfKey, cssValue)
               [] cssProperty = "transform" -> TransformResult(parseTransform(cssValue))
               [] cssProperty = "transform-origin" -> Pair("transformOrigin", Str(cssValue))
               [] cssProperty = "object-fit" -> Pair(reactPdfKey, Str(cssValue))
               [] cssProperty = "object-position" -> Pair(reactPdfKey, Str(cssValue))
               [] OTHER -> Pair(reactPdfKey, convertUnit(cssValue))

convertProperty(cssProperty, cssValue) ==
    ConvertKey(cssProperty, ReactPdfKey(PROPERTY_MAP, cssProperty), cssValue)

-----------------------------------------------------------------------------
(* DECLARATION BLOCK PARSING *)

Conversion(property, value, result) ==
    [property |-> property, value |-> value, result |-> result]

\* the declarations of a block, blank ones filtered out
Declarations(cssText) == SelectSeq(split(cssText, ";"), LAMBDA d : trim(d) # "")

\* convertProperty(property, value), with what it was called with
ConvertPair(property, value) ==
    Conversion(property, value, convertProperty(property, value))

\* the conversion of the declaration whose first colon is at colonIndex
ConvertAt(decl, colonIndex) ==
    IF colonIndex = 0 THEN Null
    ELSE ConvertPair(trim(slice(decl, 1, colonIndex - 1)), trim(From(decl, colonIndex + 1)))

\* the conversion of one declaration, or Null for a declaration without a colon
ConvertDeclaration(decl) == ConvertAt(decl, indexOf(decl, ":"))

ConvertEach(declarations) ==
    [i \in DOMAIN declarations |-> ConvertDeclaration(declarations[i])]

\* what parseDeclarationBlock calls convertProperty with, and what it answers
Conversions(cssText) ==
    SelectSeq(ConvertEach(Declarations(cssText)), LAMBDA c : c # Null)

\* style[key] = value
Assign(style, key, value) ==
    [k \in DOMAIN style \cup {key} |-> IF k = key THEN value ELSE style[k]]

RECURSIVE AssignAll(_, _)
AssignAll(style, items) ==
    IF Len(items) = 0 THEN style
    ELSE AssignAll(Assign(style, items[1].key, items[1].value), Tail(items))

RECURSIVE ApplyConversions(_, _)
ApplyConversions(style, convs) ==
    IF Len(convs) = 0 THEN style
    ELSE LET converted == convs[1].result
             next == IF converted = Null THEN style
                     ELSE IF IsMultiple(converted)
                     THEN AssignAll(style, converted.multiple)
                     ELSE Assign(style, converted.key, converted.value)
         IN  ApplyConversions(next, Tail(convs))

parseDeclarationBlock(cssText) == ApplyConversions(EmptyObject, Conversions(cssText))

-----------------------------------------------------------------------------
(* MEDIA QUERY CONVERSION *)

\* the capture of /name:\s*(\d+)/i in mediaText at position i, "" when there is no match
WidthCaptureAt(mediaText, name, i) ==
    LET head == name \o ":"
        rest == trimStart(From(mediaText, i + Len(head)))
    IN  IF toLowerCase(slice(mediaText, i, i + Len(head) - 1)) = head
        THEN DigitPrefix(rest) ELSE ""

\* the capture of /orientation:\s*(landscape|portrait)/i at position i, "" when no match
OrientationCaptureAt(mediaText, name, i) ==
    LET head == name \o ":"
        rest == trimStart(From(mediaText, i + Len(head)))
    IN  IF toLowerCase(slice(mediaText, i, i + Len(head) - 1)) # head THEN ""
        ELSE IF startsWith(toLowerCase(rest), "landscape") THEN slice(rest, 1, 9)
        ELSE IF startsWith(toLowerCase(rest), "portrait") THEN slice(rest, 1, 8)
        ELSE ""

\* the capture of the pattern for name in mediaText at position i
CaptureAt(mediaText, name, i) ==
    IF i = 0 THEN ""
    ELSE IF name = "orientation" THEN OrientationCaptureAt(mediaText, name, i)
    ELSE WidthCaptureAt(mediaText, name, i)

\* mediaText.match(regex): the capture of the leftmost match, "" when there is none
MediaCapture(mediaText, name) ==
    CaptureAt(mediaText, name,
              First({i \in 1..Len(mediaText) : CaptureAt(mediaText, name, i) # ""}))

MediaPatterns == <<"max-width", "min-width", "max-height", "min-height", "orientation">>

\* `@media ${name}: ${match[1]}` when the pattern matched
MediaKey(name, capture, otherwise) ==
    IF capture # "" THEN Str("@media " \o name \o ": " \o capture) ELSE otherwise

RECURSIVE FirstMediaPattern(_, _)
FirstMediaPattern(mediaText, i) ==
    IF i > Len(MediaPatterns) THEN Null
    ELSE MediaKey(MediaPatterns[i], MediaCapture(mediaText, MediaPatterns[i]),
                  FirstMediaPattern(mediaText, i + 1))

convertMediaQuery(mediaText) == FirstMediaPattern(mediaText, 1)

-----------------------------------------------------------------------------
(* SELECTOR HELPERS *)

normalizeSelector(selector) == collapseSpaces(trim(selector))

\* [a-zA-Z0-9_-]
IsClassChar(c) == IsAlpha(c) \/ IsDigit(c) \/ c \in {"_", "-"}

RECURSIVE ClassPrefix(_)
ClassPrefix(s) ==
    IF s # "" /\ IsClassChar(Head(s)) THEN Head(s) \o ClassPrefix(Tail(s)) ELSE ""

\* selector.match(/\.([a-zA-Z0-9_-]+)/g), each match without its dot
RECURSIVE extractClassNames(_)
extractClassNames(selector) ==
    IF selector = "" THEN <<>>
    ELSE IF Head(selector) = "." /\ ClassPrefix(Tail(selector)) # ""
    THEN <<ClassPrefix(Tail(selector))>>
         \o extractClassNames(From(selector, Len(ClassPrefix(Tail(selector))) + 2))
    ELSE extractClassNames(Tail(selector))

RECURSIVE AlnumPrefix(_)
AlnumPrefix(s) ==
    IF s # "" /\ (IsAlpha(Head(s)) \/ IsDigit(Head(s)))
    THEN Head(s) \o AlnumPrefix(Tail(s)) ELSE ""

\* a tag name taken only from a target that is nothing but the tag name
extractTagName_whole(selector) ==
    IF selector # "" /\ IsAlpha(Head(selector)) /\ AlnumPrefix(selector) = selector
    THEN Str(toLowerCase(AlnumPrefix(selector))) ELSE Null

\* selector.match(/^([a-zA-Z][a-zA-Z0-9]*)/), lower-cased, or Null
extractTagName(selector) ==
    IF selector # "" /\ IsAlpha(Head(selector))
    THEN Str(toLowerCase(AlnumPrefix(selector))) ELSE Null

-----------------------------------------------------------------------------
(* STYLE MAP AND MAIN PARSER *)

EmptyStyleMap ==
    [bySelector |-> EmptyObject, byClass |-> EmptyObject,
     byTag |-> EmptyObject, byTagClass |-> EmptyObject]

\* object[key], Undefined when the object has no such key
Get(object, key) == IF key \in DOMAIN object THEN object[key] ELSE Undefined

\* { ...a, ...b }
Spread(a, b) == [k \in DOMAIN a \cup DOMAIN b |-> IF k \in DOMAIN b THEN b[k] ELSE a[k]]

\* typeof value === 'object'
IsObjectType(value) == IsObj(value) \/ "arr" \in DOMAIN value \/ value = Null

\* the properties { ...value } copies; only nested style objects are stored
\* under media keys
Props(value) == IF IsObj(value) THEN value.obj ELSE EmptyObject

IsMediaKey(key) == startsWith(key, "@media")

\* a merge in which an incoming media-keyed object replaces the existing one
mergeStyles_replace(existing, incoming) ==
    IF existing = Undefined THEN incoming ELSE Spread(existing, incoming)

\* a merge that spreads the whole existing entry, not its media-keyed object
mergeStyles_spreadEntry(existing, incoming) ==
    IF existing = Undefined THEN incoming
    ELSE [key \in DOMAIN existing \cup DOMAIN incoming |->
            IF key \notin DOMAIN incoming THEN existing[key]
            ELSE IF IsMediaKey(key) /\ IsObjectType(incoming[key])
            THEN Obj(Spread(existing, Props(incoming[key])))
            ELSE incoming[key]]

mergeStyles(existing, incoming) ==
    IF existing = Undefined THEN incoming
    ELSE [key \in DOMAIN existing \cup DOMAIN incoming |->
            IF key \notin DOMAIN incoming THEN existing[key]
            ELSE IF IsMediaKey(key) /\ IsObjectType(incoming[key])
            THEN Obj(Spread(IF Truthy(Get(existing, key))
                            THEN Props(existing[key]) ELSE EmptyObject,
                            Props(incoming[key])))
            ELSE incoming[key]]

\* the last part of the normalized selector: a descendant selector's target
TargetPart(normalized) ==
    LET parts == splitSpaces(normalized, "") IN parts[Len(parts)]

\* bucket[key] = mergeStyles(bucket[key], style)
MergeInto(bucket, key, style) == Assign(bucket, key, mergeStyles(Get(bucket, key), style))

\* a registration that keeps a selector with a tag out of the by-class bucket
RegisterTarget_classOnly(sm, normalized, classNames, tagName, style) ==
    [bySelector |-> MergeInto(sm.bySelector, normalized, style),
     byClass |->
        IF tagName = Null /\ Len(classNames) = 1
        THEN MergeInto(sm.byClass, classNames[1], style)
        ELSE sm.byClass,
     byTag |->
        IF tagName # Null /\ Len(classNames) = 0
        THEN MergeInto(sm.byTag, tagName.str, style)
        ELSE sm.byTag,
     byTagClass |->
        IF tagName # Null /\ Len(classNames) = 1
        THEN MergeInto(sm.byTagClass, tagName.str \o "." \o classNames[1], style)
        ELSE sm.byTagClass]

\* a registration that files a compound selector under its first class
RegisterTarget_firstClass(sm, normalized, classNames, tagName, style) ==
    [bySelector |-> MergeInto(sm.bySelector, normalized, style),
     byClass |->
        IF Len(classNames) >= 1
        THEN MergeInto(sm.byClass, classNames[1], style)
        ELSE sm.byClass,
     byTag |->
        IF tagName # Null /\ Len(classNames) = 0
        THEN MergeInto(sm.byTag, tagName.str, style)
        ELSE sm.byTag,
     byTagClass |->
        IF tagName # Null /\ Len(classNames) = 1
        THEN MergeInto(sm.byTagClass, tagName.str \o "." \o classNames[1], style)
        ELSE sm.byTagClass]

\* the four registrations of addToStyleMap, for the class names and the tag
\* name of the target part
RegisterTarget(sm, normalized, classNames, tagName, style) ==
    [bySelector |-> MergeInto(sm.bySelector, normalized, style),
     byClass |->
        IF Len(classNames) = 1
        THEN MergeInto(sm.byClass, classNames[1], style)
        ELSE sm.byClass,
     byTag |->
        IF tagName # Null /\ Len(classNames) = 0
        THEN MergeInto(sm.byTag, tagName.str, style)
        ELSE sm.byTag,
     byTagClass |->
        IF tagName # Null /\ Len(classNames) = 1
        THEN MergeInto(sm.byTagClass, tagName.str \o "." \o classNames[1], style)
        ELSE sm.byTagClass]

RegisterPart(sm, normalized, targetPart, style) ==
    RegisterTarget(sm, normalized, extractClassNames(targetPart),
                   extractTagName(targetPart), style)

RegisterNormalized(sm, normalized, style) ==
    RegisterPart(sm, normalized, TargetPart(normalized), style)

addToStyleMap(sm, selector, style) ==
    RegisterNormalized(sm, normalizeSelector(selector), style)

RECURSIVE addAllToStyleMap(_, _, _)
addAllToStyleMap(sm, selectors, style) ==
    IF Len(selectors) = 0 THEN sm
    ELSE addAllToStyleMap(addToStyleMap(sm, selectors[1], style), Tail(selectors), style)

\* A Rule node of the stylesheet grammar: what csstree.generate gives for its
\* prelude and its block, and the at-rule that encloses it (Null outside any)
RuleNode(prelude, block, atrule) ==
    [type |-> "Rule", prelude |-> prelude, block |-> block, atrule |-> atrule]
Atrule(name, prelude) == [name |-> name, prelude |-> prelude]

\* csstree.generate(node.block).replace(/^\{|\}$/g, '').trim()
StripOpen(block) == IF startsWith(block, "{") THEN Tail(block) ELSE block
StripClose(block) == IF endsWith(block, "}") THEN slice(block, 1, Len(block) - 1) ELSE block
DeclText(block) == trim(StripClose(StripOpen(block)))

\* the style processRule registers for the parsed declarations: Null when it
\* returns early, the style wrapped under the media key when there is one
WrapStyle(node, mediaKey, style) ==
    IF node.type # "Rule" \/ node.prelude = "" \/ node.block = "" THEN Null
    ELSE IF DOMAIN style = {} THEN Null
    ELSE IF Truthy(mediaKey) THEN Obj((mediaKey.str :> Obj(style)))
    ELSE Obj(style)

\* the style object processRule registers: Null when the rule is skipped
RuleStyle(node, mediaKey) ==
    WrapStyle(node, mediaKey, parseDeclarationBlock(DeclText(node.block)))

\* the selectors processRule registers the style against
RuleSelectors(node) == mapTrim(split(node.prelude, ","))

\* for (const selector of selectors) addToStyleMap(selector, style)
RegisterRule(sm, node, style) ==
    IF style = Null THEN sm
    ELSE addAllToStyleMap(sm, RuleSelectors(node), style.obj)

processRule(sm, node, mediaKey) == RegisterRule(sm, node, RuleStyle(node, mediaKey))

\* the media key the walk's enter callback passes to processRule
EnterMediaKey(node) ==
    LET parent == node.atrule
    IN  IF parent # Null /\ parent.name = "media" /\ parent.prelude # ""
        THEN convertMediaQuery(parent.prelude)
        ELSE Null

-----------------------------------------------------------------------------
(* STYLE LOOKUP *)

RECURSIVE OverlayClasses(_, _, _, _)
OverlayClasses(merged, bucket, prefix, classList) ==
    IF Len(classList) = 0 THEN merged
    ELSE LET key == prefix \o classList[1]
         IN  OverlayClasses(IF key \in DOMAIN bucket
                            THEN Spread(merged, bucket[key]) ELSE merged,
                            bucket, prefix, Tail(classList))

RECURSIVE MergeClasses(_, _, _, _)
MergeClasses(merged, bucket, prefix, classList) ==
    IF Len(classList) = 0 THEN merged
    ELSE MergeClasses(IF prefix \o classList[1] \in DOMAIN bucket
                      THEN mergeStyles(merged, bucket[prefix \o classList[1]])
                      ELSE merged,
                      bucket, prefix, Tail(classList))

\* a lookup that merges each tier into the result as the build merges a style
\* into a bucket entry: media-keyed objects are combined, not replaced
getStylesForElement_deep(sm, tagName, classList) ==
    MergeClasses(
        MergeClasses(IF toLowerCase(tagName) \in DOMAIN sm.byTag
                     THEN sm.byTag[toLowerCase(tagName)] ELSE EmptyObject,
                     sm.byClass, "", classList),
        sm.byTagClass, toLowerCase(tagName) \o ".", classList)

\* a lookup that applies the class entries last, over the tag.class entries
getStylesForElement_classLast(sm, tagName, classList) ==
    LET tagLower == toLowerCase(tagName)
        tier1 == IF tagLower \in DOMAIN sm.byTag
                 THEN Spread(EmptyObject, sm.byTag[tagLower]) ELSE EmptyObject
        tier2 == OverlayClasses(tier1, sm.byTagClass, tagLower \o ".", classList)
    IN  OverlayClasses(tier2, sm.byClass, "", classList)

getStylesForElement(sm, tagName, classList) ==
    LET tagLower == toLowerCase(tagName)
        tier1 == IF tagLower \in DOMAIN sm.byTag
                 THEN Spread(EmptyObject, sm.byTag[tagLower]) ELSE EmptyObject
        tier2 == OverlayClasses(tier1, sm.byClass, "", classList)
    IN  OverlayClasses(tier2, sm.byTagClass, tagLower \o ".", classList)

-----------------------------------------------------------------------------
(* Building a style map and looking elements up in it *)

MaxRules == 3

Media400 == Atrule("media", "(max-width:400px)")
MediaPrint == Atrule("media", "print")

RulePool ==
    {RuleNode("p", "{color:red;margin:1px 2px}", Null),
     RuleNode(".lead", "{color:blue;display:none}", Null),
     RuleNode("p.lead", "{color:green}", Null),
     RuleNode(".subsq", "{text-align:center;color:red}", Null),
     RuleNode("p.subsq.special", "{text-align:left;display:flex}", Null),
     RuleNode("p", "{color:blue;display:block}", Media400),
     RuleNode("p,div  .lead", "{text-align:center;display:flex}", Media400),
     RuleNode(".lead", "{color:red}", MediaPrint),
     RuleNode("h1", "{font-weight:bold;text-align:middle;color: Inherit }", Null)}

LookupTags == {"p", "P", "div"}
LookupClassLists == {<<>>, <<"lead">>, <<"subsq", "lead">>}

\* the record of a rule the walk entered: the style processRule registered
\* for it and the selectors it registered the style against
LogEntry(node, style) ==
    [node |-> node,
     style |-> style,
     selectors |-> IF style = Null THEN <<>> ELSE RuleSelectors(node)]

InitMapIdle ==
    /\ mProperty = ""
    /\ mTokens = <<>>
    /\ mSep = ""
    /\ mResult = Idle

InitCallIdle ==
    /\ callee = ""
    /\ callArgs = <<>>
    /\ returned = Idle

InitTreeIdle ==
    /\ pieces = <<>>
    /\ treePc = "idle"
    /\ scan = Idle
    /\ popped = <<>>
    /\ built = Idle

InitEpubIdle ==
    /\ spineItems = <<>>
    /\ epubPc = "idle"
    /\ itemIndex = 0
    /\ chapters = <<>>
    /\ visited = <<>>
    /\ convertResult = Idle

InitPageIdle ==
    /\ file = Idle
    /\ pageSize = ""
    /\ status = ""
    /\ isConverting = FALSE
    /\ pdfData = Idle
    /\ inFlight = Idle
    /\ submitted = {}
    /\ shown = Idle

\* no call of convertEpubToPdf and no page
InitOthersIdle == InitEpubIdle /\ InitPageIdle

Init ==
    /\ pc = "parse"
    /\ styleMap = EmptyStyleMap
    /\ log = <<>>
    /\ lastConv = <<>>
    /\ failed = FALSE
    /\ looked = Idle
    /\ InitMapIdle
    /\ InitCallIdle
    /\ InitTreeIdle
    /\ InitOthersIdle

\* csstree.parse(cssText) returns the tree
Parse ==
    /\ pc = "parse"
    /\ pc' = "walk"
    /\ UNCHANGED <<styleMap, log, lastConv, failed, looked>>
    /\ UNCHANGED outsideBuild

\* csstree.parse(cssText) throws: the catch clause warns, the map is returned
ParseThrows ==
    /\ pc = "parse"
    /\ failed' = TRUE
    /\ pc' = "returned"
    /\ UNCHANGED <<styleMap, log, lastConv, looked>>
    /\ UNCHANGED outsideBuild

\* the walk enters the next Rule node
Enter(node) ==
    /\ pc = "walk"
    /\ Len(log) < MaxRules
    /\ styleMap' = processRule(styleMap, node, EnterMediaKey(node))
    /\ log' = Append(log, LogEntry(node, RuleStyle(node, EnterMediaKey(node))))
    /\ lastConv' = Conversions(DeclText(node.block))
    /\ UNCHANGED <<pc, failed, looked>>
    /\ UNCHANGED outsideBuild

\* csstree.walk or csstree.generate throws on the next node
WalkThrows ==
    /\ pc = "walk"
    /\ failed' = TRUE
    /\ pc' = "returned"
    /\ UNCHANGED <<styleMap, log, lastConv, looked>>
    /\ UNCHANGED outsideBuild

\* the walk has visited every Rule node
WalkEnds ==
    /\ pc = "walk"
    /\ pc' = "returned"
    /\ UNCHANGED <<styleMap, log, lastConv, failed, looked>>
    /\ UNCHANGED outsideBuild

\* a caller looks an element up in the finished style map.  A lookup reads
\* the style map and changes nothing but the record of the call, so the
\* lookups after the first reach no state the first does not reach: the
\* record is written once.
Lookup(tagName, classList) ==
    /\ pc = "returned"
    /\ looked = Idle
    /\ looked' = [tagName |-> tagName, classList |-> classList,
                  result |-> getStylesForElement(styleMap, tagName, classList)]
    /\ UNCHANGED <<pc, styleMap, log, lastConv, failed>>
    /\ UNCHANGED outsideBuild

Next ==
    \/ Parse
    \/ ParseThrows
    \/ \E node \in RulePool : Enter(node)
    \/ WalkThrows
    \/ WalkEnds
    \/ \E tagName \in LookupTags, classList \in LookupClassLists : Lookup(tagName, classList)

Spec == Init /\ [][Next]_vars

-----------------------------------------------------------------------------
(* The mapper on its own: one call of convertProperty *)

RECURSIVE Join(_, _)
Join(q, sep) ==
    IF Len(q) = 0 THEN ""
    ELSE IF Len(q) = 1 THEN q[1]
    ELSE q[1] \o sep \o Join(Tail(q), sep)

\* the cssValue argument
mValue == Join(mTokens, mSep)

InitBuildIdle ==
    /\ pc = "idle"
    /\ styleMap = EmptyStyleMap
    /\ log = <<>>
    /\ lastConv = <<>>
    /\ failed = FALSE
    /\ looked = Idle

MaxTokens == 5
BoxTokens == {"1px", "2em", "auto"}
Separators == {" ", " \t "}
Keywords ==
    {"none", "flex", "block", "left", "justify", "middle", "underline", "blink",
     "uppercase", "small-caps", "cover", "banana", "absolute", "fixed",
     "bold", "normal", "700", "bolder", "inherit", "Revert", "red", "50%", "1.5"}
MapProperties ==
    {"margin", "padding", "display", "text-align", "text-decoration",
     "text-transform", "object-fit", "position", "font-weight", "color",
     "margin-top", "transform", "float"}

RECURSIVE SeqsUpTo(_, _)
SeqsUpTo(S, n) ==
    IF n = 0 THEN {<<>>}
    ELSE LET shorter == SeqsUpTo(S, n - 1)
         IN  shorter \cup {Append(q, x) : q \in {r \in shorter : Len(r) = n - 1}, x \in S}

InitMap ==
    /\ InitBuildIdle
    /\ InitCallIdle
    /\ InitTreeIdle
    /\ InitOthersIdle
    /\ mProperty \in MapProperties
    /\ \/ /\ mTokens \in SeqsUpTo(BoxTokens, MaxTokens) \ {<<>>}
          /\ mSep \in Separators
       \/ /\ mTokens \in {<<k>> : k \in Keywords}
                      \cup {<<"underline", "line-through">>, <<"scale(2,", "3)">>}
          /\ mSep = " "
    /\ mResult = Pending

Map ==
    /\ mResult = Pending
    /\ mResult' = convertProperty(mProperty, mValue)
    /\ UNCHANGED <<mProperty, mTokens, mSep>>
    /\ UNCHANGED outsideMap

NextMap == Map

SpecMap == InitMap /\ [][NextMap]_vars

-----------------------------------------------------------------------------
(* Single calls of convertUnit, parseTransform and convertProperty *)

MaxCalls == 3

\* the parts of a length token: white space, a coefficient, a suffix, white space
Coefficients == {"0", "1", "2", "10", "22", "96", "1.5", "-3", "2.", "0.25"}
Suffixes == {"em", "rem", "px", "pt", "in", "mm", "cm",
             "", "%", "vw", "vh", "ex", "EM", "deg"}
Padding == {"", " "}

\* tokens that are no coefficient with a suffix
OddTokens ==
    {"", " ", "auto", " auto ", "inherit", "initial", "unset", "none", "bold",
     "px", ".5em", "1e3px", "--1px", "1 px", "1.2.3px", "+1px", "1em2", "-", "1..px"}

\* the function calls a transform value is made of
TransformCalls ==
    {"scale(2)", "scale(2, 3)", "rotate(45deg)", "foo(1)", "translateX(2em)",
     "skew(1deg,2deg)", "matrix(1,0,0,1,5,x)", "scale(x)"}

CallProperties ==
    MapProperties \cup {"width", "line-height", "font-style", "transform-origin",
                        "object-position", "", "-", "Color"}
CallValues ==
    Keywords \cup {"", " ", "1px 2px", "1px 2px 3px 4px 5px", "scale(2) foo(1)",
                   "foo(", "1.5em", " INITIAL "}

UnitArgs ==
    {<<lead, coefficient, suffix, trail>> :
        lead \in Padding, coefficient \in Coefficients,
        suffix \in Suffixes, trail \in Padding}
    \cup {<<token>> : token \in OddTokens}

InitCall ==
    /\ InitBuildIdle
    /\ InitMapIdle
    /\ InitTreeIdle
    /\ InitOthersIdle
    /\ \/ callee = "convertUnit" /\ callArgs \in UnitArgs
       \/ callee = "parseTransform" /\ callArgs \in SeqsUpTo(TransformCalls, MaxCalls)
       \/ callee = "convertProperty" /\ callArgs \in CallProperties \X CallValues
    /\ returned = Pending

\* convertUnit(value)
ConvertUnit ==
    /\ callee = "convertUnit"
    /\ returned = Pending
    /\ returned' = convertUnit(Join(callArgs, ""))
    /\ UNCHANGED <<callee, callArgs>>
    /\ UNCHANGED outsideCall

\* parseTransform(cssValue)
ParseTransform ==
    /\ callee = "parseTransform"
    /\ returned = Pending
    /\ returned' = parseTransform(Join(callArgs, " "))
    /\ UNCHANGED <<callee, callArgs>>
    /\ UNCHANGED outsideCall

\* convertProperty(cssProperty, cssValue)
ConvertProperty ==
    /\ callee = "convertProperty"
    /\ returned = Pending
    /\ returned' = convertProperty(callArgs[1], callArgs[2])
    /\ UNCHANGED <<callee, callArgs>>
    /\ UNCHANGED outsideCall

NextCall ==
    \/ ConvertUnit
    \/ ParseTransform
    \/ ConvertProperty

SpecCall == InitCall /\ [][NextCall]_vars

-----------------------------------------------------------------------------
(* Properties of the lookup and of the construction of the style map *)

Buckets == {"bySelector", "byClass", "byTag", "byTagClass"}

\* the rules entered so far
LoggedNodes == {log[i].node : i \in DOMAIN log}

PRed == RuleNode("p", "{color:red;margin:1px 2px}", Null)
LeadBlue == RuleNode(".lead", "{color:blue;display:none}", Null)
PLeadGreen == RuleNode("p.lead", "{color:green}", Null)
Subsq == RuleNode(".subsq", "{text-align:center;color:red}", Null)
Compound == RuleNode("p.subsq.special", "{text-align:left;display:flex}", Null)
PNarrow == RuleNode("p", "{color:blue;display:block}", Media400)
GroupNarrow == RuleNode("p,div  .lead", "{text-align:center;display:flex}", Media400)
LeadPrint == RuleNode(".lead", "{color:red}", MediaPrint)

\* the classes of classList, in list order, whose entry prefix.class of the
\* bucket defines the key
Defining(bucket, prefix, classList, key) ==
    SelectSeq(classList,
              LAMBDA c : prefix \o c \in DOMAIN bucket /\ key \in DOMAIN bucket[prefix \o c])

\* the value the three tiers give the key for an element: tag+class entries
\* first, then class entries, then the tag entry; Undefined when none defines it
TierValue(sm, tagName, classList, key) ==
    LET tag == toLowerCase(tagName)
        combos == Defining(sm.byTagClass, tag \o ".", classList, key)
        classes == Defining(sm.byClass, "", classList, key)
    IN  IF Len(combos) > 0 THEN sm.byTagClass[tag \o "." \o combos[Len(combos)]][key]
        ELSE IF Len(classes) > 0 THEN sm.byClass[classes[Len(classes)]][key]
        ELSE IF tag \in DOMAIN sm.byTag /\ key \in DOMAIN sm.byTag[tag] THEN sm.byTag[tag][key]
        ELSE Undefined

\* every style key some entry of the style map defines
KeysOf(sm) == UNION {UNION {DOMAIN sm[b][k] : k \in DOMAIN sm[b]} : b \in Buckets}

\* C1: a lookup resolves every style key by the tiers tag < class < tag+class,
\* whatever the order the rules were registered in; with the rules p{color:red},
\* .lead{color:blue} and p.lead{color:green} in any order, the lookup of
\* ("p", ["lead"]) has color green.
C1_LookupTiers ==
    looked # Idle =>
        /\ \A key \in KeysOf(styleMap) \cup DOMAIN looked.result :
              Get(looked.result, key)
                = TierValue(styleMap, looked.tagName, looked.classList, key)
        /\ (/\ LoggedNodes = {PRed, LeadBlue, PLeadGreen}
            /\ looked.tagName = "p"
            /\ looked.classList = <<"lead">>)
           => Get(looked.result, "color") = Str("green")

C1_Witness ==
    /\ looked # Idle
    /\ Len(log) = 3
    /\ log[1].node = PLeadGreen
    /\ log[2].node = PRed
    /\ log[3].node = LeadBlue
    /\ looked.tagName = "p"
    /\ looked.classList = <<"lead">>
    /\ styleMap.byTag["p"]["color"] = Str("red")
    /\ styleMap.byClass["lead"]["color"] = Str("blue")
    /\ looked.result["color"] = Str("green")

\* the target of a selector, its classes and its tag
TargetOf(selector) == TargetPart(normalizeSelector(selector))
ClassesOf(selector) == extractClassNames(TargetOf(selector))
TagOf(selector) == extractTagName(TargetOf(selector))

\* the keys at which two buckets differ
Changed(before, after) ==
    {k \in DOMAIN before \cup DOMAIN after : Get(before, k) # Get(after, k)}

\* the step enters a rule
EntersRule == Len(log') = Len(log) + 1
Entered == log'[Len(log')]

\* C2: entering a rule changes the by-class bucket only at the class of a
\* selector whose target has exactly one class, the by-tag bucket only at the
\* tag of a selector whose target has a tag and no class, the by-tag+class
\* bucket only at tag.class of a selector whose target has a tag and exactly
\* one class; every registered selector is in the full-selector bucket.
C2_RegistrationFrame ==
    [][EntersRule =>
        LET sels == Entered.selectors
        IN  /\ \A c \in Changed(styleMap.byClass, styleMap'.byClass) :
                  \E i \in DOMAIN sels : ClassesOf(sels[i]) = <<c>>
            /\ \A tg \in Changed(styleMap.byTag, styleMap'.byTag) :
                  \E i \in DOMAIN sels :
                      ClassesOf(sels[i]) = <<>> /\ TagOf(sels[i]) = Str(tg)
            /\ \A tc \in Changed(styleMap.byTagClass, styleMap'.byTagClass) :
                  \E i \in DOMAIN sels :
                      /\ Len(ClassesOf(sels[i])) = 1
                      /\ TagOf(sels[i]) # Null
                      /\ tc = TagOf(sels[i]).str \o "." \o ClassesOf(sels[i])[1]
            /\ \A i \in DOMAIN sels :
                  normalizeSelector(sels[i]) \in DOMAIN styleMap'.bySelector
    ]_vars

\* .subsq was registered, then p.subsq.special: the class entry is untouched
C2_Witness ==
    /\ Len(log) = 2
    /\ log[1].node = Subsq
    /\ log[2].node = Compound
    /\ log[2].selectors = <<"p.subsq.special">>
    /\ styleMap.byClass = ("subsq" :> log[1].style.obj)
    /\ styleMap.byClass["subsq"]["textAlign"] = Str("center")
    /\ styleMap.byTag = EmptyObject
    /\ styleMap.byTagClass = EmptyObject
    /\ DOMAIN styleMap.bySelector = {".subsq", "p.subsq.special"}

\* C3: a rule inside an @media block whose media text matches none of the
\* recognized conditions is dropped: entering it changes no bucket.
C3_UnrecognizedMediaDropped ==
    [][(/\ EntersRule
        /\ Entered.node.atrule # Null
        /\ Entered.node.atrule.name = "media"
        /\ convertMediaQuery(Entered.node.atrule.prelude) = Null)
       => styleMap' = styleMap]_vars

\* the registrations so far, one per selector of every rule that was not
\* skipped: the style, and the entry of each bucket the selector names
\* (Null where its target names none)
RECURSIVE RegistrationsOf(_)
RegistrationsOf(entries) ==
    IF Len(entries) = 0 THEN <<>>
    ELSE LET e == entries[1]
             reg(selector) ==
                 LET classes == ClassesOf(selector)
                     tag == TagOf(selector)
                 IN  [style |-> e.style.obj,
                      bySelector |-> Str(normalizeSelector(selector)),
                      byClass |-> IF Len(classes) = 1 THEN Str(classes[1]) ELSE Null,
                      byTag |-> IF Len(classes) = 0 THEN tag ELSE Null,
                      byTagClass |-> IF Len(classes) = 1 /\ tag # Null
                                     THEN Str(tag.str \o "." \o classes[1]) ELSE Null]
         IN  [i \in DOMAIN e.selectors |-> reg(e.selectors[i])]
             \o RegistrationsOf(Tail(entries))

\* the styles among the registrations that went into an entry, in order
StylesInto(regs, bucket, key) ==
    LET into == SelectSeq(regs, LAMBDA r : r[bucket] = Str(key))
    IN  [i \in DOMAIN into |-> into[i].style]

\* the last of the styles that defines the key
LastDefining(styles, key) ==
    styles[CHOOSE i \in DOMAIN styles :
              /\ key \in DOMAIN styles[i]
              /\ \A j \in DOMAIN styles : key \in DOMAIN styles[j] => j <= i]

\* the nested maps the styles hold under a media key, in order
NestedUnder(styles, mediaKey) ==
    LET having == SelectSeq(styles, LAMBDA s : mediaKey \in DOMAIN s)
    IN  [i \in DOMAIN having |-> having[i][mediaKey].obj]

AllKeys(styles) == UNION {DOMAIN styles[i] : i \in DOMAIN styles}

\* C4: in every entry of every bucket, a plain key holds the value of the last
\* registered style that defines it (keys of earlier styles are retained), and a
\* media key holds the shallow merge of all nested maps registered under it:
\* each inner key has the value of the last nested map that defines it.
C4_MergedEntries ==
    LET regs == RegistrationsOf(log)
    IN  \A b \in Buckets : \A k \in DOMAIN styleMap[b] :
            LET styles == StylesInto(regs, b, k)
                entry == styleMap[b][k]
            IN  /\ Len(styles) > 0
                /\ DOMAIN entry = AllKeys(styles)
                /\ \A key \in DOMAIN entry :
                      IF IsMediaKey(key)
                      THEN LET nested == NestedUnder(styles, key)
                           IN  /\ IsObj(entry[key])
                               /\ DOMAIN entry[key].obj = AllKeys(nested)
                               /\ \A inner \in AllKeys(nested) :
                                     entry[key].obj[inner]
                                       = LastDefining(nested, inner)[inner]
                      ELSE entry[key] = LastDefining(styles, key)[key]

\* p has a plain rule and two rules under the same media key: the plain keys
\* are retained and the nested maps are merged
C4_Witness ==
    /\ Len(log) = 3
    /\ log[1].node = PRed
    /\ log[2].node = PNarrow
    /\ log[3].node = GroupNarrow
    /\ styleMap.byTag["p"]["color"] = Str("red")
    /\ styleMap.byTag["p"]["@media max-width: 400"]
         = Obj(("color" :> Str("blue")) @@ ("textAlign" :> Str("center"))
               @@ ("display" :> Str("flex")))

\* C5: entering the same rule twice in a row leaves all four buckets as they
\* were after the first time.
C5_Idempotent ==
    [][(/\ EntersRule
        /\ Len(log) >= 1
        /\ Entered.node = log[Len(log)].node)
       => styleMap' = styleMap]_vars

\* the same media rule entered twice after a plain one
C5_Witness ==
    /\ Len(log) = 3
    /\ log[1].node = PRed
    /\ log[2].node = GroupNarrow
    /\ log[3].node = GroupNarrow
    /\ Len(log[3].selectors) = 2
    /\ "@media max-width: 400" \in DOMAIN styleMap.byTag["p"]
    /\ "@media max-width: 400" \in DOMAIN styleMap.byClass["lead"]

\* C6: when the stylesheet grammar fails during the build, the style map
\* returned is empty, also when rules had been registered before the failure.
C6_FailureGivesEmptyMap ==
    (pc = "returned" /\ failed) => styleMap = EmptyStyleMap

\* every style object of the style map, the nested ones included
StoredStyles ==
    LET top == UNION {{styleMap[b][k] : k \in DOMAIN styleMap[b]} : b \in Buckets}
        nested(s) == {s[key].obj : key \in {x \in DOMAIN s : IsMediaKey(x)}}
    IN  top \cup UNION {nested(s) : s \in top}

\* C7: the mapper answers a display declaration with the pair (display, flex)
\* when the value is flex and with no result otherwise, and no style object of
\* the style map, nested or not, holds a display value other than flex.
C7_DisplayOnlyFlex ==
    /\ \A i \in DOMAIN lastConv :
          lastConv[i].property = "display" =>
              lastConv[i].result = IF lastConv[i].value = "flex"
                                   THEN Pair("display", Str("flex"))
                                   ELSE Null
    /\ \A s \in StoredStyles : "display" \in DOMAIN s => s["display"] = Str("flex")

\* display:flex was stored, then a rule with display:none was registered
\* without its display declaration
C7_Witness ==
    /\ Len(log) = 2
    /\ log[1].node = Compound
    /\ log[2].node = LeadBlue
    /\ lastConv = <<Conversion("color", "blue", Pair("color", Str("blue"))),
                    Conversion("display", "none", Null)>>
    /\ styleMap.bySelector["p.subsq.special"]["display"] = Str("flex")
    /\ styleMap.bySelector[".lead"] = ("color" :> Str("blue"))

-----------------------------------------------------------------------------
(* Properties of the mapper *)

Mapped == mResult # Pending

CssWideKeywords == {"inherit", "initial", "unset", "revert"}

\* C8: for margin or padding and a value of n tokens separated by white space
\* (not one of the rejected keywords), the mapper yields the single key for n = 1;
\* Vertical, Horizontal for n = 2; Top, Horizontal, Bottom for n = 3; Top, Right,
\* Bottom, Left for n = 4; the single key with the first token for any other n;
\* each value is the unit conversion of its own token.
C8_BoxShorthand ==
    (/\ Mapped
     /\ mProperty \in {"margin", "padding"}
     /\ toLowerCase(mValue) \notin CssWideKeywords)
    => LET n == Len(mTokens)
           unit(i) == convertUnit(mTokens[i])
           key(side) == Pair(mProperty \o side, unit(1))
       IN  mResult =
             CASE n = 2 -> Multiple(<<Pair(mProperty \o "Vertical", unit(1)),
                                      Pair(mProperty \o "Horizontal", unit(2))>>)
               [] n = 3 -> Multiple(<<Pair(mProperty \o "Top", unit(1)),
                                      Pair(mProperty \o "Horizontal", unit(2)),
                                      Pair(mProperty \o "Bottom", unit(3))>>)
               [] n = 4 -> Multiple(<<Pair(mProperty \o "Top", unit(1)),
                                      Pair(mProperty \o "Right", unit(2)),
                                      Pair(mProperty \o "Bottom", unit(3)),
                                      Pair(mProperty \o "Left", unit(4))>>)
               [] OTHER -> Pair(mProperty, unit(1))

C8_Witness ==
    /\ Mapped
    /\ mProperty = "margin"
    /\ mTokens = <<"1px", "2em", "auto", "2em">>
    /\ mSep = " \t "
    /\ mResult = Multiple(<<Pair("marginTop", Num(75, 2)),
                            Pair("marginRight", Num(22, 0)),
                            Pair("marginBottom", Str("auto")),
                            Pair("marginLeft", Num(22, 0))>>)

\* the values each enumerated-value property allows
AllowedValues ==
    ("text-align" :> {"left", "right", "center", "justify"}) @@
    ("text-decoration" :> {"none", "underline", "line-through", "underline line-through"}) @@
    ("text-transform" :> {"none", "uppercase", "lowercase", "capitalize"}) @@
    ("object-fit" :> {"contain", "cover", "fill", "none", "scale-down"}) @@
    ("display" :> {"flex"}) @@
    ("position" :> {"absolute", "relative"})

\* C9: for each enumerated-value property the mapper returns no result when
\* the raw value is not in the property's allowed set.
C9_EnumeratedValidated ==
    (/\ Mapped
     /\ mProperty \in DOMAIN AllowedValues
     /\ mValue \notin AllowedValues[mProperty])
    => mResult = Null

\* what the font-weight case answers: bold or normal literally, else the
\* integer the value parses as, else the raw string
FontWeightValue(v) ==
    IF v \in {"bold", "normal"} THEN Str(v)
    ELSE IF AllDigits(DigitPrefix(v)) /\ DigitPrefix(v) # ""
    THEN Num(DigitsValue(DigitPrefix(v), 0), 0)
    ELSE Str(v)

\* C10 as stated: the mapper answers font-weight with a font-weight pair.
C10_FontWeightPair ==
    (Mapped /\ mProperty = "font-weight")
    => mResult = Pair("fontWeight", FontWeightValue(mValue))

\* C10, amended: the mapper answers font-weight with no result, whatever the
\* value: fontWeight is not a supported key.
C10_FontWeightDropped ==
    (Mapped /\ mProperty = "font-weight") => mResult = Null

C10_Witness ==
    /\ Mapped
    /\ mProperty = "font-weight"
    /\ mTokens = <<"bold">>
    /\ "fontWeight" \notin SUPPORTED_PROPERTIES
    /\ mResult = Null

-----------------------------------------------------------------------------
(* Properties of the mapper within a build *)

H1Rule == RuleNode("h1", "{font-weight:bold;text-align:middle;color: Inherit }", Null)

\* C11: the mapper gives no result whenever the key the property resolves to
\* (the table's entry, else the camel-cased name) is not a supported key, or the
\* value, trimmed and lower-cased, is inherit, initial, unset or revert; and
\* every key of every style object of the style map that is not a media key is
\* a supported key.
C11_UnsupportedRejected ==
    /\ \A i \in DOMAIN lastConv :
          (\/ ReactPdfKey(PROPERTY_MAP, lastConv[i].property) \notin SUPPORTED_PROPERTIES
           \/ toLowerCase(trim(lastConv[i].value)) \in CssWideKeywords)
          => lastConv[i].result = Null
    /\ \A s \in StoredStyles :
          \A key \in DOMAIN s : ~IsMediaKey(key) => key \in SUPPORTED_PROPERTIES

\* a rule with a font property and an inherited value went through the mapper
\* after a rule whose margin shorthand was stored under two keys
C11_Witness ==
    /\ Len(log) = 2
    /\ log[1].node = PRed
    /\ log[2].node = H1Rule
    /\ lastConv = <<Conversion("font-weight", "bold", Null),
                    Conversion("text-align", "middle", Null),
                    Conversion("color", "Inherit", Null)>>
    /\ DOMAIN styleMap.byTag = {"p"}
    /\ DOMAIN styleMap.byTag["p"] = {"color", "marginVertical", "marginHorizontal"}

-----------------------------------------------------------------------------
(* Properties of single calls *)

Returned == returned # Pending

\* the number a coefficient denotes
ValueOf ==
    [c \in Coefficients |->
        CASE c = "0" -> Num(0, 0)
          [] c = "1" -> Num(1, 0)
          [] c = "2" -> Num(2, 0)
          [] c = "10" -> Num(10, 0)
          [] c = "22" -> Num(22, 0)
          [] c = "96" -> Num(96, 0)
          [] c = "1.5" -> Num(15, 1)
          [] c = "-3" -> Num(0 - 3, 0)
          [] c = "2." -> Num(2, 0)
          [] c = "0.25" -> Num(25, 2)]

\* the factor of each unit: 11, 11, 0.75, 1, 72, 2.83465, 28.3465
FactorOf ==
    [u \in {"em", "rem", "px", "pt", "in", "mm", "cm"} |->
        CASE u \in {"em", "rem"} -> Num(11, 0)
          [] u = "px" -> Num(75, 2)
          [] u = "pt" -> Num(1, 0)
          [] u = "in" -> Num(72, 0)
          [] u = "mm" -> Num(283465, 5)
          [] u = "cm" -> Num(283465, 4)]

ConvertOf(token) == callee = "convertUnit" /\ Join(callArgs, "") = token /\ Returned

\* C12: for a token made of a coefficient n and a unit, convertUnit returns the
\* number n times 11 for em and rem, 0.75 for px, 1 for pt, 72 for in, 2.83465
\* for mm and 28.3465 for cm (as exact decimals); 2em and 22pt give 22, 96px gives
\* 72, 1in gives 72 and 10mm gives 28.3465.
C12_UnitFactors ==
    /\ (callee = "convertUnit" /\ Returned /\ Len(callArgs) = 4
        /\ callArgs[3] \in DOMAIN FactorOf)
       => returned = Times(ValueOf[callArgs[2]], FactorOf[callArgs[3]])
    /\ ConvertOf("2em") => returned = Num(22, 0)
    /\ ConvertOf("22pt") => returned = Num(22, 0)
    /\ ConvertOf("96px") => returned = Num(72, 0)
    /\ ConvertOf("1in") => returned = Num(72, 0)
    /\ ConvertOf("10mm") => returned = Num(283465, 4)

\* 10mm, padded with white space, was converted to 28.3465
C12_Witness ==
    /\ callee = "convertUnit"
    /\ callArgs = <<" ", "10", "mm", "">>
    /\ returned = [num |-> 283465, exp |-> 4]

\* the tokens of OddTokens without the white space around them
TrimmedOdd(token) ==
    CASE token = " " -> ""
      [] token = " auto " -> "auto"
      [] OTHER -> token

\* whether the parts make a bare number or a coefficient with a unit that has
\* a factor; "2." is no bare number
IsNumericToken(parts) ==
    /\ Len(parts) = 4
    /\ \/ parts[3] \in DOMAIN FactorOf
       \/ parts[3] = "" /\ parts[2] # "2."

IsPairResult(r) == DOMAIN r = {"key", "value"}

\* C13: convertUnit and convertProperty are total: every call returns a value;
\* convertUnit returns a number or a string, and the trimmed original string for
\* every token that is neither a bare number nor a coefficient with a unit that
\* has a factor (keywords, percentages and vw/vh tokens included);
\* convertProperty returns no result, a pair or a list of pairs.
C13_Total ==
    /\ (callee = "convertUnit" /\ Returned)
       => /\ IsNum(returned) \/ IsStr(returned)
          /\ ~IsNumericToken(callArgs)
             => returned = Str(IF Len(callArgs) = 4
                               THEN callArgs[2] \o callArgs[3]
                               ELSE TrimmedOdd(callArgs[1]))
    /\ (callee = "convertProperty" /\ Returned)
       => \/ returned = Null
          \/ IsPairResult(returned)
          \/ /\ DOMAIN returned = {"multiple"}
             /\ \A i \in DOMAIN returned.multiple : IsPairResult(returned.multiple[i])

\* a malformed token came back trimmed
C13_Witness ==
    /\ callee = "convertUnit"
    /\ callArgs = <<" ", "1.5", "ex", " ">>
    /\ returned = Str("1.5ex")

\* the operations each function call of TransformCalls is to emit
OpsOf(call) ==
    CASE call = "scale(2)" -> <<TransformOp("scale", Num(2, 0))>>
      [] call = "scale(2, 3)" ->
            <<TransformOp("scaleX", Num(2, 0)), TransformOp("scaleY", Num(3, 0))>>
      [] call = "rotate(45deg)" -> <<TransformOp("rotate", Str("45deg"))>>
      [] call = "foo(1)" -> <<>>
      [] call = "translateX(2em)" -> <<TransformOp("translateX", Num(22, 0))>>
      [] call = "skew(1deg,2deg)" ->
            <<TransformOp("skewX", Str("1deg")), TransformOp("skewY", Str("2deg"))>>
      [] call = "matrix(1,0,0,1,5,x)" ->
            <<TransformOp("matrix",
                Arr(<<Num(1, 0), Num(0, 0), Num(0, 0), Num(1, 0), Num(5, 0), Num(0, 0)>>))>>
      [] call = "scale(x)" -> <<TransformOp("scale", Num(1, 0))>>

RECURSIVE OpsOfAll(_)
OpsOfAll(calls) ==
    IF Len(calls) = 0 THEN <<>> ELSE OpsOf(Head(calls)) \o OpsOfAll(Tail(calls))

\* C14: parseTransform emits the operations of the function calls in their
\* left-to-right order: one scale operation for scale with one argument, scaleX
\* immediately followed by scaleY for scale with two; a call of an unknown
\* function emits nothing and leaves the operations of the other calls in place;
\* the result is null exactly when no operation was emitted.
C14_TransformOrder ==
    (callee = "parseTransform" /\ Returned)
    => /\ returned = IF OpsOfAll(callArgs) = <<>> THEN Null ELSE Arr(OpsOfAll(callArgs))
       /\ returned = Null <=> \A i \in DOMAIN callArgs : callArgs[i] = "foo(1)"

\* scale with two arguments, an unknown function, then scale with one argument
C14_Witness ==
    /\ callee = "parseTransform"
    /\ callArgs = <<"scale(2, 3)", "foo(1)", "scale(2)">>
    /\ returned = Arr(<<[name |-> "scaleX", arg |-> [num |-> 2, exp |-> 0]],
                        [name |-> "scaleY", arg |-> [num |-> 3, exp |-> 0]],
                        [name |-> "scale", arg |-> [num |-> 2, exp |-> 0]]>>)

-----------------------------------------------------------------------------
(***************************************************************************)
(* The markup tree builder (src/unnamed/part_000): parseHtmlToTree,        *)
(* parseElement, parseElementContent, extractClassNames and cleanText.     *)
(* A ContentNode is a record: [type |-> "text", tagName, classNames, text] *)
(* or [type |-> "container", tagName, classNames, children]. Positions in  *)
(* the html are JavaScript's (0-based): html.slice(a, b) is                *)
(* slice(html, a + 1, b).                                                  *)
(***************************************************************************)

\* .replace(/<[^>]+>/g, ' ') from the first "<" of s, at position i, whose
\* first ">" is the close-th character after it
RECURSIVE stripTags(_)
StripTag(s, i, close) ==
    IF close = 0 THEN s
    ELSE IF close = 1 THEN slice(s, 1, i) \o stripTags(From(s, i + 1))
    ELSE slice(s, 1, i - 1) \o " " \o stripTags(From(s, i + close + 1))

StripFrom(s, i) ==
    IF i = 0 THEN s ELSE StripTag(s, i, indexOf(From(s, i + 1), ">"))

stripTags(s) == IF s = "" THEN "" ELSE StripFrom(s, indexOf(s, "<"))

\* s.replace(/pattern/g, replacement) for a literal pattern, whose leftmost
\* occurrence is at position i
RECURSIVE replaceAll(_, _, _)
ReplaceAt(s, pattern, replacement, i) ==
    IF i = 0 THEN s
    ELSE slice(s, 1, i - 1) \o replacement
             \o replaceAll(From(s, i + Len(pattern)), pattern, replacement)

replaceAll(s, pattern, replacement) ==
    IF s = "" THEN "" ELSE ReplaceAt(s, pattern, replacement, indexOf(s, pattern))

\* the literal replacements of cleanText, in the order it makes them
NamedEntities ==
    << <<"&nbsp;", " ">>, <<"&amp;", "&">>, <<"&lt;", "<">>, <<"&gt;", ">">>,
       <<"&quot;", "\"">>, <<"&#39;", "'">>, <<"&apos;", "'">> >>

RECURSIVE decodeNamed(_, _)
decodeNamed(s, k) ==
    IF s = "" \/ k > Len(NamedEntities) THEN s
    ELSE decodeNamed(replaceAll(s, NamedEntities[k][1], NamedEntities[k][2]), k + 1)

\* String.fromCharCode(code) for the printable ASCII codes 32..95 and 97..126;
\* the markup drawn holds no reference to another code
AsciiLow == " !\"#$%&'(" \o ")*+,-./0123456789:;<=>?@ABCDEFGHIJKLMNOPQRSTUVWXYZ[\\]^_"
AsciiHigh == "abcdefghijklmnopqrstuvwxyz{|}~"

fromCharCode(code) ==
    IF code \in 32..95 THEN At(AsciiLow, code - 31)
    ELSE IF code \in 97..126 THEN At(AsciiHigh, code - 96)
    ELSE "?"

HexDigits == "0123456789abcdef"
IsHexDigit(c) == LowerOf(c) \in CharsOf(HexDigits)

RECURSIVE HexPrefix(_)
HexPrefix(s) ==
    IF s # "" /\ IsHexDigit(Head(s)) THEN Head(s) \o HexPrefix(Tail(s)) ELSE ""

RECURSIVE HexValue(_, _)
HexValue(s, acc) ==
    IF s = "" THEN acc
    ELSE HexValue(Tail(s), acc * 16 + IndexIn(HexDigits, LowerOf(Head(s))) - 1)

\* .replace(/&#(\d+);/g, ...) from the first "&#" of s, at position i, that
\* the digits code follow
RECURSIVE decodeDecimal(_)
DecimalAt(s, i, code) ==
    IF i = 0 THEN s
    ELSE IF code # "" /\ At(s, i + 2 + Len(code)) = ";"
    THEN slice(s, 1, i - 1) \o fromCharCode(DigitsValue(code, 0))
             \o decodeDecimal(From(s, i + 3 + Len(code)))
    ELSE slice(s, 1, i + 1) \o decodeDecimal(From(s, i + 2))

DecimalFrom(s, i) == DecimalAt(s, i, DigitPrefix(From(s, i + 2)))

decodeDecimal(s) == IF s = "" THEN "" ELSE DecimalFrom(s, indexOf(s, "&#"))

\* .replace(/&#x([0-9a-f]+);/gi, ...) from the first "&#x" of s, at position i
RECURSIVE decodeHex(_)
HexAt(s, i, code) ==
    IF i = 0 THEN s
    ELSE IF code # "" /\ At(s, i + 3 + Len(code)) = ";"
    THEN slice(s, 1, i - 1) \o fromCharCode(HexValue(code, 0))
             \o decodeHex(From(s, i + 4 + Len(code)))
    ELSE slice(s, 1, i + 2) \o decodeHex(From(s, i + 3))

HexFrom(s, i) == HexAt(s, i, HexPrefix(From(s, i + 3)))

decodeHex(s) == IF s = "" THEN "" ELSE HexFrom(s, indexOf(toLowerCase(s), "&#x"))

cleanText(html) ==
    trim(collapseSpaces(decodeHex(decodeDecimal(decodeNamed(stripTags(html), 1)))))

CONTAINER_TAGS ==
    {"div", "section", "article", "blockquote", "aside", "nav",
     "header", "footer", "main", "figure", "figcaption"}

TEXT_TAGS == {"p", "span", "li"}

VOID_TAGS ==
    {"br", "hr", "img", "input", "meta", "link", "area", "base",
     "col", "embed", "param", "source", "track", "wbr"}

\* the names parseElement skips together with what follows up to their close tag
SKIPPED_TAGS == {"script", "style", "head", "h1", "h2", "h3", "h4", "h5", "h6"}

IsQuote(c) == c \in {"\"", "'"}
IsClassName(c) == Len(c) > 0

\* the capture of /class=["']([^"']+)["']/i at position i of attributes whose
\* first quote after the opening one is the close-th character; Null: no match
ClassCapture(attributes, i, close) ==
    IF /\ toLowerCase(slice(attributes, i, i + 5)) = "class="
       /\ IsQuote(At(attributes, i + 6))
       /\ close >= 2
    THEN Str(slice(attributes, i + 7, i + 5 + close))
    ELSE Null

ClassCaptureAt(attributes, i) ==
    ClassCapture(attributes, i,
        First({k \in 1..(Len(attributes) - i - 6) : IsQuote(At(attributes, i + 6 + k))}))

\* classMatch[1].split(/\s+/).filter(c => c.length > 0), [] without a match
ClassNamesAt(attributes, i) ==
    IF i = 0 THEN <<>>
    ELSE SelectSeq(splitSpaces(ClassCaptureAt(attributes, i).str, ""), IsClassName)

extractAttributeClassNames(attributes) ==
    ClassNamesAt(attributes,
        First({i \in 1..Len(attributes) : ClassCaptureAt(attributes, i) # Null}))

\* where the tag name starts in a match of tagRegex at position p of html
TagNameStart(html, p) == IF At(html, p + 1) = "/" THEN p + 2 ELSE p + 1

\* whether /<(\/?)(\w+)([^>]*)>/ matches html at position p
TagAt(html, p) ==
    /\ At(html, p) = "<"
    /\ IsWord(At(html, TagNameStart(html, p)))
    /\ indexOf(From(html, WordEnd(html, TagNameStart(html, p)) + 1), ">") > 0

\* a match that takes in the character after its ">"
TagMatch_past(html, p, nameStart, nameEnd, close) ==
    [index |-> p - 1,
     after |-> nameEnd + close + 1,
     isClosing |-> nameStart = p + 2,
     tagLower |-> toLowerCase(slice(html, nameStart, nameEnd)),
     attributes |-> slice(html, nameEnd + 1, nameEnd + close - 1)]

\* the match at position p: its index and the index after it (both 0-based),
\* whether group 1 is "/", group 2 lower-cased, group 3
TagMatch(html, p, nameStart, nameEnd, close) ==
    [index |-> p - 1,
     after |-> nameEnd + close,
     isClosing |-> nameStart = p + 2,
     tagLower |-> toLowerCase(slice(html, nameStart, nameEnd)),
     attributes |-> slice(html, nameEnd + 1, nameEnd + close - 1)]

TagNamed(html, p, nameStart, nameEnd) ==
    TagMatch(html, p, nameStart, nameEnd, indexOf(From(html, nameEnd + 1), ">"))

TagMatchAt(html, p) ==
    IF p = 0 THEN Null
    ELSE TagNamed(html, p, TagNameStart(html, p), WordEnd(html, TagNameStart(html, p)))

\* tagRegex.exec(html) with tagRegex.lastIndex = lastIndex: the leftmost match
\* at or after lastIndex, Null when there is none
exec(html, lastIndex) ==
    TagMatchAt(html, First({p \in (lastIndex + 1)..Len(html) : TagAt(html, p)}))

TextNode(tagName, classNames, text) ==
    [type |-> "text", tagName |-> tagName, classNames |-> classNames, text |-> text]

ContainerNode(tagName, classNames, children) ==
    [type |-> "container", tagName |-> tagName, classNames |-> classNames,
     children |-> children]

\* an entry of parseElement's stack
Frame(tagName, classNames, startIndex) ==
    [tagName |-> tagName, classNames |-> classNames, children |-> <<>>,
     startIndex |-> startIndex]

\* the locals of parseElement that its loop changes
LoopState(lastIndex, stack, children) ==
    [lastIndex |-> lastIndex, stack |-> stack, children |-> children]

\* whether /<(name|...)\b/i, name of names, matches somewhere in html
OpensOneOf(html, names) ==
    \E p \in 1..Len(html), name \in names :
        /\ At(html, p) = "<"
        /\ toLowerCase(slice(html, p + 1, p + Len(name))) = name
        /\ ~IsWord(At(html, p + Len(name) + 1))

hasNestedTags(innerHtml) == OpensOneOf(innerHtml, {"div", "blockquote", "section", "p"})
hasSkippedHeading(innerHtml) == OpensOneOf(innerHtml, {"h1", "h2", "h3", "h4", "h5", "h6"})

\* children after the push of a top-level text, made only for a text that is
\* not empty while no frame is open
PushText(stack, children, cleanedText) ==
    IF Len(cleanedText) > 0 /\ Len(stack) = 0
    THEN Append(children, TextNode("span", <<>>, cleanedText))
    ELSE children

\* children after "Text before this tag" for the match m
TextBefore(html, lastIndex, stack, children, m) ==
    IF m.index > lastIndex
    THEN PushText(stack, children, cleanText(slice(html, lastIndex + 1, m.index)))
    ELSE children

\* lastIndex after the search of the close tag in html.slice(lastIndex), which
\* finds it at position i of the slice (0: not found)
SkipPast(lastIndex, closeTag, i) ==
    IF i = 0 THEN lastIndex ELSE lastIndex + (i - 1) + Len(closeTag)

SkipTo(html, lastIndex, closeTag) ==
    SkipPast(lastIndex, closeTag, indexOf(toLowerCase(From(html, lastIndex + 1)), closeTag))

RECURSIVE parseElementContent(_, _, _)

\* the node of the frame item popped by the close tag at index
NodeOf(html, item, index) ==
    parseElementContent(slice(html, item.startIndex + 1, index),
                        item.tagName, item.classNames)

\* the state after the pop that left the frames of stack open
Popped(lastIndex, stack, children, node) ==
    IF Len(stack) = 0
    THEN LoopState(lastIndex, stack, Append(children, node))
    ELSE LoopState(lastIndex,
                   [stack EXCEPT ![Len(stack)].children = Append(@, node)],
                   children)

\* the loop body with a close tag that pops the top frame whatever its name
Body_anyClose(html, stack, children, m) ==
    IF m.tagLower \in VOID_TAGS
    THEN LoopState(m.after, stack, children)
    ELSE IF ~m.isClosing /\ m.tagLower \in SKIPPED_TAGS
    THEN LoopState(SkipTo(html, m.after, "</" \o m.tagLower \o ">"), stack, children)
    ELSE IF m.isClosing
    THEN IF Len(stack) > 0
         THEN Popped(m.after, SubSeq(stack, 1, Len(stack) - 1), children,
                     NodeOf(html, stack[Len(stack)], m.index))
         ELSE LoopState(m.after, stack, children)
    ELSE IF endsWith(trim(m.attributes), "/")
    THEN LoopState(m.after, stack, children)
    ELSE IF m.tagLower \in CONTAINER_TAGS \/ m.tagLower \in TEXT_TAGS
    THEN LoopState(m.after,
                   Append(stack, Frame(m.tagLower,
                                       extractAttributeClassNames(m.attributes),
                                       m.after)),
                   children)
    ELSE LoopState(m.after, stack, children)

\* the body of the loop after "Text before this tag", for the match m
Body(html, stack, children, m) ==
    IF m.tagLower \in VOID_TAGS
    THEN LoopState(m.after, stack, children)
    ELSE IF ~m.isClosing /\ m.tagLower \in SKIPPED_TAGS
    THEN LoopState(SkipTo(html, m.after, "</" \o m.tagLower \o ">"), stack, children)
    ELSE IF m.isClosing
    THEN IF Len(stack) > 0 /\ stack[Len(stack)].tagName = m.tagLower
         THEN Popped(m.after, SubSeq(stack, 1, Len(stack) - 1), children,
                     NodeOf(html, stack[Len(stack)], m.index))
         ELSE LoopState(m.after, stack, children)
    ELSE IF endsWith(trim(m.attributes), "/")
    THEN LoopState(m.after, stack, children)
    ELSE IF m.tagLower \in CONTAINER_TAGS \/ m.tagLower \in TEXT_TAGS
    THEN LoopState(m.after,
                   Append(stack, Frame(m.tagLower,
                                       extractAttributeClassNames(m.attributes),
                                       m.after)),
                   children)
    ELSE LoopState(m.after, stack, children)

\* one iteration of the loop of parseElement(html, ...), for the match m
Iterate(html, loop, m) ==
    Body(html, loop.stack,
         TextBefore(html, loop.lastIndex, loop.stack, loop.children, m), m)

\* "Handle any remaining text" and the return
Remaining(html, lastIndex, stack, children) ==
    IF lastIndex < Len(html)
    THEN PushText(stack, children, cleanText(From(html, lastIndex + 1)))
    ELSE children

Finish(html, tagName, classNames, loop) ==
    ContainerNode(tagName, classNames,
                  Remaining(html, loop.lastIndex, loop.stack, loop.children))

\* the loop of parseElement from the state loop, whose next match is m
RECURSIVE RunLoop(_, _, _, _)
RunMatch(html, tagName, classNames, loop, m) ==
    IF m = Null THEN Finish(html, tagName, classNames, loop)
    ELSE RunLoop(html, tagName, classNames, Iterate(html, loop, m))

RunLoop(html, tagName, classNames, loop) ==
    RunMatch(html, tagName, classNames, loop, exec(html, loop.lastIndex))

parseElement(html, tagName, classNames) ==
    RunLoop(html, tagName, classNames, LoopState(0, <<>>, <<>>))

\* the end of parseElementContent: parsed, or a text node in its place
ContentOf(innerHtml, tagName, classNames, parsed) ==
    IF /\ Len(parsed.children) = 0
       /\ ~hasSkippedHeading(innerHtml)
       /\ Len(cleanText(innerHtml)) > 0
    THEN TextNode(tagName, classNames, cleanText(innerHtml))
    ELSE parsed

parseElementContent(innerHtml, tagName, classNames) ==
    IF tagName \in TEXT_TAGS /\ ~hasNestedTags(innerHtml)
    THEN TextNode(tagName, classNames, cleanText(innerHtml))
    ELSE ContentOf(innerHtml, tagName, classNames,
                   parseElement(innerHtml, tagName, classNames))

\* the capture of a match of /<name[^>]*>([\s\S]*?)<\/name>/i whose content
\* starts at position start of html and whose close tag is found at position
\* close of the rest; Null when there is no match
ElementTo(html, start, close) ==
    IF close = 0 THEN Null ELSE Str(slice(html, start, start + close - 2))

\* the capture of a match of /<title[^>]*>([^<]+)<\/title>/i whose content
\* starts at position start of html and whose first "<" is at position lt of
\* the rest; Null when there is no match
TitleTo(html, start, lt) ==
    IF lt >= 2 /\ toLowerCase(slice(html, start + lt - 1, start + lt + 6)) = "</title>"
    THEN Str(slice(html, start, start + lt - 2))
    ELSE Null

\* the match whose [^>]* starts at position q and whose ">" is the gt-th
\* character from there
ElementFrom(html, closeTag, q, gt) ==
    IF gt = 0 THEN Null
    ELSE IF closeTag = "</title>"
    THEN TitleTo(html, q + gt, indexOf(From(html, q + gt), "<"))
    ELSE ElementTo(html, q + gt, indexOf(toLowerCase(From(html, q + gt)), closeTag))

\* the match at position p of html, Null when there is none (p = 0: none anywhere)
ElementAt(html, open, closeTag, p) ==
    IF p > 0 /\ At(html, p) = "<" /\ toLowerCase(slice(html, p, p + Len(open) - 1)) = open
    THEN ElementFrom(html, closeTag, p + Len(open),
                     indexOf(From(html, p + Len(open)), ">"))
    ELSE Null

\* html.match(regex)[1] for these regular expressions: the leftmost match
ElementMatch(html, open, closeTag) ==
    ElementAt(html, open, closeTag,
              First({p \in 1..Len(html) : ElementAt(html, open, closeTag, p) # Null}))

\* the characters of s before its first quote; Null when s has no quote
QuotedTo(s, close) == IF close = 0 THEN Null ELSE Str(slice(s, 1, close - 1))
Quoted(s) == QuotedTo(s, First({k \in 1..Len(s) : IsQuote(At(s, k))}))

\* whether value, when it is a string, holds one of the markers
HoldsOneOf(value, markers) ==
    value # Null /\ \E marker \in markers : indexOf(value.str, marker) > 0

\* /epub:type=["'][^"']*(marker|...)[^"']*["']/.test(html)
EpubType(html, markers) ==
    \E p \in 1..Len(html) :
        /\ At(html, p) = "e"
        /\ slice(html, p, p + 9) = "epub:type="
        /\ IsQuote(At(html, p + 10))
        /\ HoldsOneOf(Quoted(From(html, p + 11)), markers)

isTitlePage(html) == EpubType(html, {"titlepage"})

FrontMatterTitles ==
    {"copyright", "table of contents", "contents", "dedication", "preface",
     "foreword", "introduction", "prologue"}

BackMatterTitles ==
    {"about the author", "acknowledgment", "acknowledgments", "afterword",
     "epilogue", "appendix", "notes", "bibliography", "index"}

\* chapterTitle after both if statements that assign it
ChapterTitle(titlePage, h1Match, h2Match, titleMatch) ==
    IF ~titlePage /\ h2Match # Null /\ h1Match = Null THEN cleanText(h2Match.str)
    ELSE IF h1Match # Null THEN cleanText(h1Match.str)
    ELSE IF titleMatch # Null /\ ~titlePage THEN cleanText(titleMatch.str)
    ELSE ""

chapterTitle(html) ==
    ChapterTitle(isTitlePage(html),
                 ElementMatch(html, "<h1", "</h1>"),
                 ElementMatch(html, "<h2", "</h2>"),
                 ElementMatch(html, "<title", "</title>"))

\* author || undefined
Author(titlePage, h2Match) ==
    IF titlePage /\ h2Match # Null /\ cleanText(h2Match.str) # ""
    THEN Str(cleanText(h2Match.str))
    ELSE Undefined

author(html) == Author(isTitlePage(html), ElementMatch(html, "<h2", "</h2>"))

\* the decision with back matter tried before front matter
PageType_backFirst(html, title) ==
    IF isTitlePage(html) THEN "titlepage"
    ELSE IF \/ EpubType(html, {"afterword", "colophon", "acknowledgment", "epilogue"})
            \/ toLowerCase(trim(title)) \in BackMatterTitles
    THEN "backmatter"
    ELSE IF \/ EpubType(html, {"copyright"})
            \/ EpubType(html, {"toc"})
            \/ EpubType(html, {"dedication", "preface", "foreword", "prologue"})
            \/ toLowerCase(trim(title)) \in FrontMatterTitles
    THEN "frontmatter"
    ELSE "chapter"

PageType(html, title) ==
    IF isTitlePage(html) THEN "titlepage"
    ELSE IF \/ EpubType(html, {"copyright"})
            \/ EpubType(html, {"toc"})
            \/ EpubType(html, {"dedication", "preface", "foreword", "prologue"})
            \/ toLowerCase(trim(title)) \in FrontMatterTitles
    THEN "frontmatter"
    ELSE IF \/ EpubType(html, {"afterword", "colophon", "acknowledgment", "epilogue"})
            \/ toLowerCase(trim(title)) \in BackMatterTitles
    THEN "backmatter"
    ELSE "chapter"


\* bodyMatch ? bodyMatch[1] : html
BodyOf(html, bodyMatch) == IF bodyMatch # Null THEN bodyMatch.str ELSE html
bodyHtml(html) == BodyOf(html, ElementMatch(html, "<body", "</body>"))

\* what parseHtmlToTree returns once parseElement has returned contentTree
Returns(html, title, contentTree) ==
    [chapterTitle |-> title,
     contentTree |-> contentTree,
     pageType |-> PageType(html, title),
     author |-> author(html)]

Result(html, contentTree) == Returns(html, chapterTitle(html), contentTree)

parseHtmlToTree(html) == Result(html, parseElement(bodyHtml(html), "body", <<>>))

-----------------------------------------------------------------------------
(* One call of parseHtmlToTree: the html argument is made of pieces of      *)
(* markup, and the loop of parseElement(bodyHtml, 'body', []) runs one      *)
(* iteration at a time: a step is the body of the loop for the match found  *)
(* and the test of the loop that follows it, which assigns the next match.  *)

MaxPieces == 3

Pieces ==
    {"<p>", "</p>", "<div>", "</div>", "<p>Body</p>", "Hello ", "<b>world</b>",
     "<h1>Title</h1>", "<h1/>", "<br/>"}

\* an element the pieces are put into: its open and close tags, or nothing
Wrappers == {<<>>, <<"<div>", "</div>">>, <<"<div><p>", "</p></div>">>}

Wrapped(q, wrapper) ==
    IF wrapper = <<>> THEN q ELSE <<wrapper[1]>> \o q \o <<wrapper[2]>>

\* the html argument
Markup == Join(pieces, "")

\* the locals of parseElement at the test of its loop, which has assigned match
Scanning(html, loop) ==
    [html |-> html, lastIndex |-> loop.lastIndex, stack |-> loop.stack,
     children |-> loop.children, match |-> exec(html, loop.lastIndex)]

\* parseHtmlToTree has been called with the html the pieces q make
Called(q) ==
    /\ InitBuildIdle
    /\ InitMapIdle
    /\ InitCallIdle
    /\ InitOthersIdle
    /\ pieces = q
    /\ treePc = "called"
    /\ scan = Idle
    /\ popped = <<>>
    /\ built = Pending

InitTree ==
    \E q \in SeqsUpTo(Pieces, MaxPieces), wrapper \in Wrappers :
        Called(Wrapped(q, wrapper))

\* parseHtmlToTree up to its call of parseElement, and the start of that call
ParseHtmlToTree ==
    /\ treePc = "called"
    /\ treePc' = "scan"
    /\ scan' = Scanning(bodyHtml(Markup), LoopState(0, <<>>, <<>>))
    /\ UNCHANGED <<pieces, popped, built>>
    /\ UNCHANGED outsideTree

\* the match the loop body runs for, null when the loop has ended
NextTag == scan.match

\* whether the close tag m pops the top of stack
Pops(stack, m) ==
    m.isClosing /\ Len(stack) > 0 /\ stack[Len(stack)].tagName = m.tagLower

\* the loop body runs for the match NextTag
Iteration ==
    scan' = Scanning(scan.html, Iterate(scan.html, scan, NextTag))

\* an iteration that ends at "Skip void tags"
SkipVoid ==
    /\ treePc = "scan"
    /\ NextTag # Null
    /\ NextTag.tagLower \in VOID_TAGS
    /\ Iteration
    /\ UNCHANGED <<pieces, treePc, popped, built>>
    /\ UNCHANGED outsideTree

\* an iteration that ends at "Skip script, style, head, and headings"
SkipElement ==
    /\ treePc = "scan"
    /\ NextTag # Null
    /\ NextTag.tagLower \notin VOID_TAGS
    /\ ~NextTag.isClosing
    /\ NextTag.tagLower \in SKIPPED_TAGS
    /\ Iteration
    /\ UNCHANGED <<pieces, treePc, popped, built>>
    /\ UNCHANGED outsideTree

\* an iteration for a closing tag
CloseTag ==
    /\ treePc = "scan"
    /\ NextTag # Null
    /\ NextTag.tagLower \notin VOID_TAGS
    /\ NextTag.isClosing
    /\ Iteration
    /\ popped' =
           IF Pops(scan.stack, NextTag)
           THEN Append(popped,
                       [tagName |-> NextTag.tagLower,
                        innerHtml |-> slice(scan.html,
                                            scan.stack[Len(scan.stack)].startIndex + 1,
                                            NextTag.index),
                        node |-> NodeOf(scan.html, scan.stack[Len(scan.stack)],
                                        NextTag.index)])
           ELSE popped
    /\ UNCHANGED <<pieces, treePc, built>>
    /\ UNCHANGED outsideTree

\* an iteration for an opening tag
OpenTag ==
    /\ treePc = "scan"
    /\ NextTag # Null
    /\ NextTag.tagLower \notin VOID_TAGS
    /\ ~NextTag.isClosing
    /\ NextTag.tagLower \notin SKIPPED_TAGS
    /\ Iteration
    /\ UNCHANGED <<pieces, treePc, popped, built>>
    /\ UNCHANGED outsideTree

\* the loop ends: the remaining text, and both functions return
Return ==
    /\ treePc = "scan"
    /\ NextTag = Null
    /\ treePc' = "done"
    /\ built' = Result(Markup, Finish(scan.html, "body", <<>>, scan))
    /\ UNCHANGED <<pieces, scan, popped>>
    /\ UNCHANGED outsideTree

NextTree ==
    \/ ParseHtmlToTree
    \/ SkipVoid
    \/ SkipElement
    \/ CloseTag
    \/ OpenTag
    \/ Return

SpecTree == InitTree /\ [][NextTree]_vars

\* NextTree is enabled exactly while the call has not returned: a match makes
\* one of the four iterations possible, no match makes Return possible
Running == treePc \in {"called", "scan"}

\* the single tags and text runs of Pieces, in every order
TagPieces == Pieces \ {"<p>Body</p>", "<b>world</b>"}

InitTreeLive == \E q \in SeqsUpTo(TagPieces, MaxPieces) : Called(q)

\* the caller awaits the result, so the call goes on while it can: weak
\* fairness of NextTree, WF_vars(NextTree), with Running written for
\* ENABLED <<NextTree>>_vars
SpecTreeLive ==
    /\ InitTreeLive
    /\ [][NextTree]_vars
    /\ ([]<>~Running \/ []<><<NextTree>>_vars)

\* markup with elements nested in text-bearing elements and with close tags
\* that match no open tag
NestPieces ==
    {"<p>", "</p>", "<div>", "</div>", "<p>Body</p>", "<span>in</span>",
     "<li>Item</li>", "<aside>Note</aside>", "Text", "</br>", "</h1>",
     "<h1>T</h1>", "<br/>"}

InitNest == \E q \in SeqsUpTo(NestPieces, MaxPieces) : Called(q)

SpecNest == InitNest /\ [][NextTree]_vars

\* the tree the loop built step by step is the one parseElement returns
TreeAgrees == treePc = "done" => built = parseHtmlToTree(Markup)

-----------------------------------------------------------------------------
(* Claims about the markup tree builder *)

\* the texts of the text nodes of a tree
RECURSIVE TextsOf(_)
TextsOf(node) ==
    IF node.type = "text" THEN {node.text}
    ELSE UNION {TextsOf(node.children[i]) : i \in DOMAIN node.children}

TreeBuilt == treePc = "done"

\* C15: text that lies inside a heading element never appears in the text of
\* a node of the content tree, whatever element encloses the heading (of the
\* pieces, only the heading holds "Title"); and <h1>Title</h1><p>Body</p>
\* gives the title "Title" and a tree that holds only the paragraph's text node.
C15_HeadingExcluded ==
    TreeBuilt =>
        /\ \A text \in TextsOf(built.contentTree) : indexOf(text, "Title") = 0
        /\ pieces = <<"<h1>Title</h1>", "<p>Body</p>">> =>
               /\ built.chapterTitle = "Title"
               /\ built.contentTree.children = <<TextNode("p", <<>>, "Body")>>

\* a tree without its texts and class names: the nodes, their tags, their order
RECURSIVE Shape(_)
Shape(node) ==
    IF node.type = "text" THEN [type |-> "text", tagName |-> node.tagName]
    ELSE [type |-> "container", tagName |-> node.tagName,
          children |-> [i \in DOMAIN node.children |-> Shape(node.children[i])]]

\* the pieces with the <b> tags around "world" taken away
Unwrapped(q) == [i \in DOMAIN q |-> IF q[i] = "<b>world</b>" THEN "world" ELSE q[i]]

\* C16: a tag whose name is in none of the recognized sets (here <b>) never
\* pushes a frame and is never a content boundary: the tree has the same
\* nodes in the same order as the tree of the markup without the tag, inside
\* a text-bearing element, inside a container and at top level; and for
\* <div><p>Hello <b>world</b></p></div> the div has the single text child
\* "Hello world".
C16_InlineTagNoBoundary ==
    /\ treePc = "scan" =>
           \A i \in DOMAIN scan.stack :
               scan.stack[i].tagName \in CONTAINER_TAGS \cup TEXT_TAGS
    /\ TreeBuilt =>
           /\ Shape(built.contentTree)
                  = Shape(parseHtmlToTree(Join(Unwrapped(pieces), "")).contentTree)
           /\ pieces = <<"<div><p>", "Hello ", "<b>world</b>", "</p></div>">> =>
                  built.contentTree.children
                      = <<ContainerNode("div", <<>>,
                                        <<TextNode("p", <<>>, "Hello world")>>)>>

\* an iteration of the loop moves lastIndex forward within the same html
Advances ==
    /\ scan'.html = scan.html
    /\ scan'.lastIndex > scan.lastIndex
    /\ scan'.lastIndex <= Len(scan.html)

\* C17: the call of parseHtmlToTree terminates and returns a tree, for every
\* sequence of open tags, close tags and text runs: each iteration of the
\* loop moves lastIndex forward within the html, and the call returns a
\* container node (nothing in it raises), also with unterminated tags,
\* unmatched close tags and skipped tags without a close tag.
C17_Terminates ==
    /\ [][treePc = "scan" /\ treePc' = "scan" => Advances]_vars
    /\ <>(TreeBuilt /\ built.contentTree.type = "container")

C17_Witness ==
    /\ TreeBuilt
    /\ pieces = <<"<p>", "</div>", "<h1/>">>
    /\ built.contentTree = ContainerNode("body", <<>>, <<>>)

\* whether the tree holds text: in one of its text nodes
Holds(tree, text) == \E kept \in TextsOf(tree) : indexOf(kept, text) > 0

\* C18: on malformed nesting only the unparseable tail is lost: every element
\* whose close tag matched the top of the stack (it was popped and resolved
\* to a node) before the end of input has its text in the returned tree, also
\* when an enclosing or earlier frame is still open at the end of input.
C18_ParsedPrefixKept ==
    TreeBuilt =>
        \A i \in DOMAIN popped :
            \A text \in TextsOf(popped[i].node) \ {""} :
                Holds(built.contentTree, text)

\* whether the match m is an opening tag written in self-closing form
SelfClosing(m) == ~m.isClosing /\ endsWith(trim(m.attributes), "/")

\* C19: an opening tag written in self-closing form is treated as void
\* whatever its name, a heading included: the iteration for it pushes no
\* frame and skips nothing after the tag (lastIndex moves just past the tag).
C19_SelfClosingIsVoid ==
    [][treePc = "scan" /\ treePc' = "scan" /\ SelfClosing(NextTag) =>
           /\ scan'.stack = scan.stack
           /\ scan'.lastIndex = NextTag.after]_vars

\* the nodes of a tree
RECURSIVE NodesOf(_)
NodesOf(node) ==
    IF node.type = "text" THEN {node}
    ELSE {node} \cup UNION {NodesOf(node.children[i]) : i \in DOMAIN node.children}

\* C20: in every tree parseHtmlToTree returns, every node of the text
\* variant has no children and a text that is not empty after cleaning, also
\* for an empty or markup-only text-bearing element such as <p></p>.
C20_TextNodesNonEmpty ==
    TreeBuilt =>
        \A node \in NodesOf(built.contentTree) :
            node.type = "text" =>
                /\ "children" \notin DOMAIN node
                /\ Len(node.text) > 0

-----------------------------------------------------------------------------
(* The chapter loop of parseEpub and the document of convertEpubToPdf.      *)
(* The EPUB is a manifest, the files of the archive and a spine; the call   *)
(* starts where parseEpub has read the OPF file and built the style map,    *)
(* and runs the loop over the spine one item at a time.                     *)

MaxSpine == 3

\* a content document: the epub:type of its section ("": none), the text of
\* its h1 and of its title element ("": no such element), the rest of its body
Document(epubType, h1, title, body) ==
    [epubType |-> epubType, h1 |-> h1, title |-> title, body |-> body]

\* the markup of a content document
Html(doc) ==
    (IF doc.title = "" THEN "" ELSE "<head><title>" \o doc.title \o "</title></head>")
    \o "<body>"
    \o (IF doc.epubType = "" THEN "<section>"
        ELSE "<section epub:type=\"" \o doc.epubType \o "\">")
    \o (IF doc.h1 = "" THEN "" ELSE "<h1>" \o doc.h1 \o "</h1>")
    \o doc.body
    \o "</section></body>"

\* the content documents of the EPUB, by manifest id
Documents ==
    [cover    |-> Document("titlepage", "My Book", "", "<h2>Ann</h2>"),
     rights   |-> Document("copyright-page", "", "Rights", "<p>All rights reserved</p>"),
     intro    |-> Document("", "Introduction", "", "<p>Why</p>"),
     notes    |-> Document("preface", " NOTES ", "", "<p>First</p>"),
     one      |-> Document("", "One", "", "<p>Body</p>"),
     untitled |-> Document("", "", "", "<div><p>More</p></div>"),
     blank    |-> Document("", "Two", "", "<p></p> <br/>"),
     thanks   |-> Document("", "Acknowledgments", "", "<p>Thanks</p>"),
     later    |-> Document("epilogue", "", "Later", "<p>After</p>"),
     mixed    |-> Document("afterword", "Preface", "", "<p>Last</p>")]

\* the manifest of the OPF file: an item for each id; "empty" names an empty
\* file and "missing" a file the archive does not hold
ManifestIds == DOMAIN Documents \cup {"empty", "missing"}

\* the idrefs a spine is made of; "ghost" is an idref the manifest lacks
SpineIds == ManifestIds \cup {"ghost"}

opfDir == "OEBPS/"

\* manifest.get(itemId)
manifestGet(itemId) ==
    IF itemId \in ManifestIds THEN [href |-> itemId \o ".xhtml"] ELSE Undefined

\* the ids of the content documents stored at path: one, or none
DocumentsAt(path) ==
    {id \in DOMAIN Documents : path = opfDir \o id \o ".xhtml"}

\* await zip.file(chapterPath)?.async('text'), for the file that holds the
\* content documents ids
FileText(path, ids) ==
    IF ids # {} THEN Str(Html(Documents[CHOOSE id \in ids : TRUE]))
    ELSE IF path = opfDir \o "empty.xhtml" THEN Str("")
    ELSE Undefined

zipText(path) == FileText(path, DocumentsAt(path))

\* the title and the author parseOpf found
OpfTitle == "My Book"
OpfAuthor == ""

\* the test with a text node counted whatever its text
RECURSIVE hasTextContent_anyText(_)
hasTextContent_anyText(node) ==
    \/ node.type = "text"
    \/ /\ "children" \in DOMAIN node
       /\ \E i \in DOMAIN node.children : hasTextContent_anyText(node.children[i])

\* hasTextContent(node)
RECURSIVE hasTextContent(_)
hasTextContent(node) ==
    \/ node.type = "text" /\ Len(node.text) > 0 /\ Len(trim(node.text)) > 0
    \/ /\ "children" \in DOMAIN node
       /\ \E i \in DOMAIN node.children : hasTextContent(node.children[i])

\* chapterTitle || a numbered title, for a chapters array of length count
TitleOr(parsedTitle, count) ==
    IF parsedTitle # "" THEN parsedTitle ELSE "Chapter " \o ToString(count + 1)

\* the object pushed for what parseHtmlToTree returned
Chapter(parsed, count) ==
    [title |-> TitleOr(parsed.chapterTitle, count),
     content |-> parsed.contentTree,
     type |-> parsed.pageType,
     author |-> parsed.author]

\* "Only include if there's content or it's a title page"
Included(parsed) ==
    hasTextContent(parsed.contentTree) \/ parsed.pageType = "titlepage"

\* the chapter put in front of the others
Pushed_front(list, parsed) ==
    IF Included(parsed) THEN <<Chapter(parsed, Len(list))>> \o list ELSE list

\* chapters after the body of the loop for chapterContent, which is truthy
Pushed(list, parsed) ==
    IF Included(parsed) THEN Append(list, Chapter(parsed, Len(list))) ELSE list

\* chapters after the loop body for the item whose file holds chapterContent
AfterContent(list, chapterContent) ==
    IF chapterContent = Undefined \/ chapterContent = Str("") THEN list
    ELSE Pushed(list, parseHtmlToTree(chapterContent.str))

\* chapters after the loop body for itemId
AfterItem(list, itemId, item) ==
    IF item = Undefined THEN list
    ELSE AfterContent(list, zipText(opfDir \o item.href))

\* the loop of parseEpub over the spine items from position i on
RECURSIVE ChaptersFrom(_, _, _)
ChaptersFrom(list, spine, i) ==
    IF i > Len(spine) THEN list
    ELSE ChaptersFrom(AfterItem(list, spine[i], manifestGet(spine[i])), spine, i + 1)

\* what parseEpub returns for the spine, without the style map
ParsedEpub(opfTitle, opfAuthor, list) ==
    [title |-> IF opfTitle # "" THEN opfTitle ELSE "Untitled",
     author |-> IF opfAuthor # "" THEN opfAuthor ELSE "Unknown Author",
     chapters |-> list]

parseEpub(spine) == ParsedEpub(OpfTitle, OpfAuthor, ChaptersFrom(<<>>, spine, 1))

\* KDP 6x9 page size in points
KDP_6x9 == [width |-> 432, height |-> 648]

\* chapters.filter((ch) => ch.type === type)
OfType(list, type) == SelectSeq(list, LAMBDA ch : ch.type = type)

\* a Page element: its size, its running header (null: none) and the
\* chapters it lays out, in order
Page(size, header, list) == [size |-> size, header |-> header, chapters |-> list]

\* the Page of a group of chapters, which is left out for an empty group
GroupPage(list, header) ==
    IF Len(list) > 0 THEN <<Page(KDP_6x9, header, list)>> ELSE <<>>

\* the Page elements of the Document for the four groups of chapters
Pages(titlePages, frontMatter, storyChapters, backMatter, header) ==
    [i \in DOMAIN titlePages |-> Page(KDP_6x9, Null, <<titlePages[i]>>)]
    \o GroupPage(frontMatter, Null)
    \o GroupPage(storyChapters, header)
    \o GroupPage(backMatter, Null)

\* the Document element BookDocument returns: its Page elements
BookDocument(list, title, bookAuthor) ==
    Pages(OfType(list, "titlepage"), OfType(list, "frontmatter"),
          OfType(list, "chapter"), OfType(list, "backmatter"),
          [left |-> bookAuthor, right |-> title])

\* what convertEpubToPdf returns once parseEpub has returned parsed; the
\* PDF is the document it was rendered from
Converted(parsed) ==
    IF Len(parsed.chapters) = 0
    THEN [success |-> FALSE, error |-> "No chapters found in EPUB"]
    ELSE [success |-> TRUE,
          pdfBase64 |-> BookDocument(parsed.chapters, parsed.title, parsed.author)]

\* convertEpubToPdf has called parseEpub for an EPUB with the spine q
InitEpub ==
    \E q \in SeqsUpTo(SpineIds, MaxSpine) :
        /\ InitBuildIdle
        /\ InitMapIdle
        /\ InitCallIdle
        /\ InitTreeIdle
        /\ InitPageIdle
        /\ spineItems = q
        /\ epubPc = "spine"
        /\ itemIndex = 0
        /\ chapters = <<>>
        /\ visited = <<>>
        /\ convertResult = Pending

\* the spine item the loop takes next
itemId == spineItems[itemIndex + 1]

\* await zip.file(chapterPath)?.async('text') for the next item
chapterContent == zipText(opfDir \o manifestGet(itemId).href)

\* an iteration of the loop is possible
InLoop == epubPc = "spine" /\ itemIndex < Len(spineItems)

\* the record of an iteration: the item, what parseHtmlToTree returned for it
\* (null: not called) and whether a chapter was pushed
Visit(id, parsed, pushed) == [itemId |-> id, parsed |-> parsed, pushed |-> pushed]

\* an iteration that ends at "if (!item) continue"
SkipItem ==
    /\ InLoop
    /\ manifestGet(itemId) = Undefined
    /\ itemIndex' = itemIndex + 1
    /\ visited' = Append(visited, Visit(itemId, Null, FALSE))
    /\ UNCHANGED <<spineItems, epubPc, chapters, convertResult>>
    /\ UNCHANGED outsideEpub

\* an iteration for an item whose file is missing or empty
SkipFile ==
    /\ InLoop
    /\ manifestGet(itemId) # Undefined
    /\ ~Truthy(chapterContent)
    /\ itemIndex' = itemIndex + 1
    /\ visited' = Append(visited, Visit(itemId, Null, FALSE))
    /\ UNCHANGED <<spineItems, epubPc, chapters, convertResult>>
    /\ UNCHANGED outsideEpub

\* parseHtmlToTree(chapterContent) for the file of each content document: the
\* function reads its argument only, and its value for a file is computed once
ParsedDocuments ==
    [id \in DOMAIN Documents |-> parseHtmlToTree(Html(Documents[id]))]

\* the rest of an iteration for what parseHtmlToTree returned, which pushes a
\* chapter or not
Parsed(parsed, pushes) ==
    /\ Included(parsed) = pushes
    /\ chapters' = Pushed(chapters, parsed)
    /\ visited' = Append(visited, Visit(itemId, parsed, pushes))

\* an iteration that parses the file and pushes a chapter
PushChapter ==
    /\ InLoop
    /\ manifestGet(itemId) # Undefined
    /\ Truthy(chapterContent)
    /\ Parsed(ParsedDocuments[itemId], TRUE)
    /\ itemIndex' = itemIndex + 1
    /\ UNCHANGED <<spineItems, epubPc, convertResult>>
    /\ UNCHANGED outsideEpub

\* an iteration that parses the file and pushes nothing
DropChapter ==
    /\ InLoop
    /\ manifestGet(itemId) # Undefined
    /\ Truthy(chapterContent)
    /\ Parsed(ParsedDocuments[itemId], FALSE)
    /\ itemIndex' = itemIndex + 1
    /\ UNCHANGED <<spineItems, epubPc, convertResult>>
    /\ UNCHANGED outsideEpub

\* the loop has ended: parseEpub returns
ReturnParsed ==
    /\ epubPc = "spine"
    /\ itemIndex = Len(spineItems)
    /\ epubPc' = "parsed"
    /\ UNCHANGED <<spineItems, itemIndex, chapters, visited, convertResult>>
    /\ UNCHANGED outsideEpub

\* convertEpubToPdf after parseEpub: no chapters
NoChapters ==
    /\ epubPc = "parsed"
    /\ Len(chapters) = 0
    /\ convertResult' = Converted(ParsedEpub(OpfTitle, OpfAuthor, chapters))
    /\ epubPc' = "done"
    /\ UNCHANGED <<spineItems, itemIndex, chapters, visited>>
    /\ UNCHANGED outsideEpub

\* convertEpubToPdf after parseEpub: the document is rendered and returned
Render ==
    /\ epubPc = "parsed"
    /\ Len(chapters) > 0
    /\ convertResult' = Converted(ParsedEpub(OpfTitle, OpfAuthor, chapters))
    /\ epubPc' = "done"
    /\ UNCHANGED <<spineItems, itemIndex, chapters, visited>>
    /\ UNCHANGED outsideEpub

\* parseEpub, the rendering or the encoding throws: the catch clause of
\* convertEpubToPdf returns the failure
ConvertThrows ==
    /\ epubPc \in {"spine", "parsed"}
    /\ convertResult' = [success |-> FALSE, error |-> "Error"]
    /\ epubPc' = "done"
    /\ UNCHANGED <<spineItems, itemIndex, chapters, visited>>
    /\ UNCHANGED outsideEpub

NextEpub ==
    \/ SkipItem
    \/ SkipFile
    \/ PushChapter
    \/ DropChapter
    \/ ReturnParsed
    \/ NoChapters
    \/ Render
    \/ ConvertThrows

SpecEpub == InitEpub /\ [][NextEpub]_vars

\* the chapters the loop pushed step by step are the ones parseEpub returns
EpubAgrees ==
    epubPc = "parsed" => chapters = parseEpub(spineItems).chapters

-----------------------------------------------------------------------------
(* Claims about the chapters of an EPUB *)

\* the epub:type values that mark front matter and back matter
FrontMarkers == {"copyright-page", "toc", "dedication", "preface", "foreword", "prologue"}
BackMarkers == {"afterword", "colophon", "acknowledgments", "epilogue"}

\* the titles of front matter and of back matter, in lower case
FrontTitleList ==
    {"copyright", "table of contents", "contents", "dedication", "preface",
     "foreword", "introduction", "prologue"}
BackTitleList ==
    {"about the author", "acknowledgments", "afterword", "epilogue", "appendix",
     "notes", "bibliography", "index"}

\* the role of a content document with the derived title, by fixed priority
RoleOf(doc, derivedTitle) ==
    IF doc.epubType = "titlepage" THEN "titlepage"
    ELSE IF doc.epubType \in FrontMarkers \/ toLowerCase(derivedTitle) \in FrontTitleList
    THEN "frontmatter"
    ELSE IF doc.epubType \in BackMarkers \/ toLowerCase(derivedTitle) \in BackTitleList
    THEN "backmatter"
    ELSE "chapter"

\* the iterations of the loop of parseEpub that called parseHtmlToTree
ParsedVisits == {i \in DOMAIN visited : visited[i].parsed # Null}

\* C21: the role of a fragment is a fixed-priority decision: titlepage for
\* the title-page marker; else frontmatter for a front-matter marker or a
\* derived title of the front-matter list; else backmatter for a back-matter
\* marker or a derived title of the back-matter list; else chapter.  A
\* fragment without a marker whose title is "Acknowledgments" is backmatter.
C21_RolePriority ==
    \A i \in ParsedVisits :
        /\ visited[i].parsed.pageType
               = RoleOf(Documents[visited[i].itemId], visited[i].parsed.chapterTitle)
        /\ visited[i].itemId = "thanks" =>
               /\ Documents["thanks"].epubType = ""
               /\ visited[i].parsed.chapterTitle = "Acknowledgments"
               /\ visited[i].parsed.pageType = "backmatter"

\* the roles found for the spine items taken so far
RolesVisited == {visited[i].parsed.pageType : i \in ParsedVisits}

C21_Witness ==
    /\ epubPc = "done"
    /\ spineItems = <<"thanks", "mixed", "cover">>
    /\ RolesVisited = {"backmatter", "frontmatter", "titlepage"}

\* the iterations that pushed a chapter, in the order of the spine
KeptVisits == SelectSeq(visited, LAMBDA v : v.pushed)

\* the loop takes the spine items in order, and the chapters array holds a
\* chapter for each iteration that pushed one, in that order
InSpineOrder ==
    /\ \A i \in DOMAIN visited : visited[i].itemId = spineItems[i]
    /\ Len(chapters) = Len(KeptVisits)
    /\ \A k \in DOMAIN chapters :
           /\ chapters[k].content = KeptVisits[k].parsed.contentTree
           /\ chapters[k].type = KeptVisits[k].parsed.pageType

\* convertEpubToPdf has returned the PDF of a document
Rendered == epubPc = "done" /\ convertResult.success

\* the chapters the pages of a document lay out, in the order of the pages
RECURSIVE Emitted(_)
Emitted(pages) ==
    IF pages = <<>> THEN <<>> ELSE Head(pages).chapters \o Emitted(Tail(pages))

\* the place of a role in the document
RoleRank(type) ==
    CASE type = "titlepage" -> 1
      [] type = "frontmatter" -> 2
      [] type = "chapter" -> 3
      [] type = "backmatter" -> 4

\* whether the chapters of list come role by role
ByRole(list) ==
    \A i, j \in DOMAIN list : i < j => RoleRank(list[i].type) <= RoleRank(list[j].type)

\* what the loop has to go by for an iteration: what parseHtmlToTree
\* returned, or for a missing or empty file a fragment without body content
FragmentOf(visit) ==
    IF visit.parsed = Null THEN parseHtmlToTree("") ELSE visit.parsed

\* the keep-or-discard test: the tree has a text node whose cleaned text is
\* not empty, or the role is titlepage
Keeps(fragment) ==
    \/ TextsOf(fragment.contentTree) \ {""} # {}
    \/ fragment.pageType = "titlepage"

\* C25: for every spine entry that resolves to a manifest item, a chapter is
\* produced exactly when the built tree has text content or the role is
\* titlepage; a missing or empty fragment counts as a fragment without body
\* content under the same test, so no chapter is produced for it.
C25_KeptIffTextOrTitlePage ==
    /\ \A i \in DOMAIN visited :
           visited[i].itemId \in ManifestIds =>
               (visited[i].pushed <=> Keeps(FragmentOf(visited[i])))
    /\ Len(chapters) = Len(KeptVisits)

C25_Witness ==
    /\ epubPc = "parsed"
    /\ spineItems = <<"cover", "blank", "empty">>
    /\ TextsOf(ParsedDocuments["cover"].contentTree) = {}
    /\ TextsOf(ParsedDocuments["blank"].contentTree) = {""}
    /\ Len(chapters) = 1
    /\ chapters[1].type = "titlepage"

\* C22 as stated: the kept spine entries come in spine order both in the
\* chapter list handed to the renderer and in the order the document emits
\* the chapters, whatever their roles.
C22_SpineOrderEmitted ==
    /\ InSpineOrder
    /\ Rendered => Emitted(convertResult.pdfBase64) = chapters

\* C22 as amended: the chapter list handed to the renderer holds the kept
\* spine entries in spine order; the document emits the chapters role by
\* role (title pages, front matter, chapters, back matter), the chapters of
\* one role in spine order.
C22_SpineOrderWithinRole ==
    /\ InSpineOrder
    /\ Rendered =>
           /\ ByRole(Emitted(convertResult.pdfBase64))
           /\ \A type \in {"titlepage", "frontmatter", "chapter", "backmatter"} :
                  OfType(Emitted(convertResult.pdfBase64), type) = OfType(chapters, type)

C22_Witness ==
    /\ Rendered
    /\ spineItems = <<"thanks", "one", "cover">>
    /\ Len(chapters) = 3
    /\ Emitted(convertResult.pdfBase64) = <<chapters[3], chapters[2], chapters[1]>>

-----------------------------------------------------------------------------
(* Claims about nested elements and close tags *)

\* the frames of text-bearing tags the scan of the body has popped
TextFramesPopped == {i \in DOMAIN popped : popped[i].tagName \in TEXT_TAGS}

\* whether the slice of a frame holds an opening tag of a recognized element
HoldsNestedTag(innerHtml) == OpensOneOf(innerHtml, CONTAINER_TAGS \cup TEXT_TAGS)

\* C23: when the frame of a text-bearing tag is popped, its slice becomes a
\* single flat text node only if the slice holds no opening tag of a
\* recognized container or text-bearing element; with such a nested tag
\* (article, aside, figure, li, span, ...) the builder recurses and the
\* nested elements are separate nodes of a container.
C23_FlatOnlyWithoutNestedTag ==
    \A i \in TextFramesPopped :
        IF HoldsNestedTag(popped[i].innerHtml)
        THEN /\ popped[i].node.type = "container"
             /\ Len(popped[i].node.children) > 0
        ELSE popped[i].node.type = "text"

\* the tag names on the stack, bottom first
Names(stack) == [i \in DOMAIN stack |-> stack[i].tagName]

\* the name of the frame on top of the stack, "" for an empty stack
TopName == IF Len(scan.stack) = 0 THEN "" ELSE scan.stack[Len(scan.stack)].tagName

\* the top-level children with the text run before the tag, which is pushed
\* while no frame is open
WithTextBefore(text) ==
    IF Len(scan.stack) = 0 /\ text # ""
    THEN Append(scan.children, TextNode("span", <<>>, text))
    ELSE scan.children

\* C24: during the scan the stack pops only on a close tag whose name is
\* the name on top of the stack, and then pops that one frame; a close tag
\* with another name (the name of a deeper frame, a void name, a skipped
\* name) leaves the stack and every children list as they are (the text run
\* before it aside); and the stack holds only names of recognized container
\* or text-bearing tags.
C24_PopsOnlyOnMatchingClose ==
    /\ [][treePc = "scan" /\ treePc' = "scan" =>
              /\ Len(scan'.stack) < Len(scan.stack) =>
                     /\ NextTag.isClosing
                     /\ NextTag.tagLower = TopName
                     /\ Names(scan'.stack) = SubSeq(Names(scan.stack), 1, Len(scan.stack) - 1)
              /\ NextTag.isClosing /\ NextTag.tagLower # TopName =>
                     /\ scan'.stack = scan.stack
                     /\ scan'.children
                            = WithTextBefore(cleanText(slice(scan.html, scan.lastIndex + 1,
                                                             NextTag.index)))]_vars
    /\ [](treePc = "scan" =>
              \A i \in DOMAIN scan.stack :
                  scan.stack[i].tagName \in CONTAINER_TAGS \cup TEXT_TAGS)

C24_Witness ==
    /\ TreeBuilt
    /\ pieces = <<"<div>", "<p>", "</div>">>
    /\ popped = <<>>
    /\ built.contentTree = ContainerNode("body", <<>>, <<>>)

-----------------------------------------------------------------------------
(* Claims about media-keyed objects in a lookup and about the buckets a
   selector is registered in *)

\* the entry of the by-tag bucket for the element's tag, empty when none
TagEntry(sm, tagName) ==
    IF toLowerCase(tagName) \in DOMAIN sm.byTag
    THEN sm.byTag[toLowerCase(tagName)] ELSE EmptyObject

\* the values the class entries and the tag+class entries of the element
\* hold under the key: the tiers a lookup applies after the tag entry
LaterValues(sm, tagName, classList, key) ==
    {sm.byClass[classList[i]][key] :
        i \in {j \in DOMAIN classList :
                 /\ classList[j] \in DOMAIN sm.byClass
                 /\ key \in DOMAIN sm.byClass[classList[j]]}}
    \cup
    {sm.byTagClass[toLowerCase(tagName) \o "." \o classList[i]][key] :
        i \in {j \in DOMAIN classList :
                 /\ toLowerCase(tagName) \o "." \o classList[j] \in DOMAIN sm.byTagClass
                 /\ key \in DOMAIN sm.byTagClass[toLowerCase(tagName) \o "." \o classList[j]]}}

\* the inner keys only the first object has
OnlyIn(first, second) == DOMAIN Props(first) \ DOMAIN Props(second)

\* the result's object under the key is a later tier's own object, with no
\* inner key of the tag entry's object merged in
TakenFromLaterTier(result, tagEntry, later, key) ==
    /\ result[key] \in later
    /\ \A inner \in DOMAIN Props(tagEntry[key]) \cap DOMAIN Props(result[key]) :
          \E value \in later : inner \in DOMAIN Props(value)

\* C26: a lookup overlays the tiers shallowly.  When the tag entry and a
\* class or tag+class entry applied after it both hold an object under the
\* same media key, the result holds under that key the object of a later
\* tier as it is stored, so the inner keys only the tag entry's object has
\* are absent from it; and a lookup leaves the style map as it was.
C26_ShallowOverlay ==
    /\ [](looked # Idle =>
            \A key \in DOMAIN TagEntry(styleMap, looked.tagName) :
                (/\ IsMediaKey(key)
                 /\ LaterValues(styleMap, looked.tagName, looked.classList, key) # {})
                => TakenFromLaterTier(
                       looked.result, TagEntry(styleMap, looked.tagName),
                       LaterValues(styleMap, looked.tagName, looked.classList, key),
                       key))
    /\ [][looked' # looked => styleMap' = styleMap]_vars

C26_Witness ==
    /\ looked # Idle
    /\ looked.tagName = "p"
    /\ looked.classList = <<"lead">>
    /\ "lead" \in DOMAIN styleMap.byClass
    /\ \E key \in DOMAIN TagEntry(styleMap, "p") \cap DOMAIN styleMap.byClass["lead"] :
          /\ IsMediaKey(key)
          /\ "color" \in OnlyIn(styleMap.byTag["p"][key], styleMap.byClass["lead"][key])
          /\ "textAlign" \in DOMAIN Props(looked.result[key])
          /\ "color" \notin DOMAIN Props(looked.result[key])
          /\ looked.result[key] = styleMap.byClass["lead"][key]

\* the logged rule registers the key against the class: one of its selectors
\* has a target with exactly that one class, and its style holds the key
RegistersClassKey(entry, class, key) ==
    /\ entry.style # Null
    /\ key \in DOMAIN entry.style.obj
    /\ \E s \in DOMAIN entry.selectors : ClassesOf(entry.selectors[s]) = <<class>>

\* no rule entered after the i-th registers the key against the class
LastForClassKey(i, class, key) ==
    \A j \in DOMAIN log : j > i => ~RegistersClassKey(log[j], class, key)

\* the selectors of the logged rule whose target is a tag with exactly one class
TagClassSelectors(entry) ==
    {entry.selectors[s] : s \in {t \in DOMAIN entry.selectors :
        /\ TagOf(entry.selectors[t]) # Null
        /\ Len(ClassesOf(entry.selectors[t])) = 1}}

\* the element has the class last in its list and no tag+class entry of its
\* own that holds the key
ClassDecides(sm, tagName, classList, class, key) ==
    /\ Len(classList) > 0
    /\ classList[Len(classList)] = class
    /\ Defining(sm.byTagClass, toLowerCase(tagName) \o ".", classList, key) = <<>>

\* the declaration of the rule is what the by-class entry holds, and what a
\* lookup the class decides returns
InClassBucket(sm, call, class, key, value) ==
    /\ class \in DOMAIN sm.byClass
    /\ Get(sm.byClass[class], key) = value
    /\ (call # Idle /\ ClassDecides(sm, call.tagName, call.classList, class, key))
       => Get(call.result, key) = value

\* C27: a rule whose target is tag.class with exactly one class is merged
\* into the by-class entry of that class as well as into the tag+class entry:
\* each of its plain declarations that no later rule for the class redefines
\* is the by-class entry's value, overwriting an earlier .class rule, and is
\* returned by the lookup of an element of any tag with that class that has
\* no tag+class entry of its own for the key (div with class lead after
\* .lead{color:blue} and p.lead{color:green} has color green).
C27_TagClassRuleInClassBucket ==
    \A i \in DOMAIN log :
        \A sel \in TagClassSelectors(log[i]) :
            \A key \in DOMAIN log[i].style.obj :
                (~IsMediaKey(key) /\ LastForClassKey(i, ClassesOf(sel)[1], key))
                => InClassBucket(styleMap, looked, ClassesOf(sel)[1], key,
                                 log[i].style.obj[key])

C27_Witness ==
    /\ looked # Idle
    /\ Len(log) = 2
    /\ log[1].node = LeadBlue
    /\ log[1].style.obj["color"] = Str("blue")
    /\ log[2].node = PLeadGreen
    /\ looked.tagName = "div"
    /\ looked.classList = <<"lead">>
    /\ styleMap.byClass["lead"]["color"] = Str("green")
    /\ styleMap.byTagClass["p.lead"]["color"] = Str("green")
    /\ "div.lead" \notin DOMAIN styleMap.byTagClass
    /\ looked.result["color"] = Str("green")

-----------------------------------------------------------------------------
(* Building a style map from rules whose selectors carry an ID, a
   pseudo-class or a combinator *)

SelectorPool ==
    {RuleNode("p#x", "{color:red}", Null),
     RuleNode("a:hover", "{color:blue}", Null),
     RuleNode("div>p", "{color:green;text-align:center}", Null),
     RuleNode("p", "{color:blue;text-align:left}", Null),
     RuleNode("#x", "{text-align:right}", Null),
     RuleNode("a.ref:hover,.ref", "{color:red}", Null)}

SelectorTags == {"p", "a", "div", "A"}
SelectorClassLists == {<<>>, <<"ref">>}

NextSel ==
    \/ Parse
    \/ ParseThrows
    \/ \E node \in SelectorPool : Enter(node)
    \/ WalkThrows
    \/ WalkEnds
    \/ \E tagName \in SelectorTags, classList \in SelectorClassLists :
          Lookup(tagName, classList)

SpecSel == Init /\ [][NextSel]_vars

\* the letters and digits a target starts with, lower-cased: its leading tag
\* name when the first of them is a letter
LeadingTag(selector) == toLowerCase(AlnumPrefix(TargetOf(selector)))
StartsWithTag(selector) ==
    TargetOf(selector) # "" /\ IsAlpha(Head(TargetOf(selector)))

\* the target starts with a tag name, has no class, and carries something
\* after the tag name: an ID, a pseudo-class or a combinator and what follows
Qualified(selector) ==
    /\ StartsWithTag(selector)
    /\ ClassesOf(selector) = <<>>
    /\ AlnumPrefix(TargetOf(selector)) # TargetOf(selector)

QualifiedSelectors(entry) ==
    {entry.selectors[s] : s \in {t \in DOMAIN entry.selectors :
                                    Qualified(entry.selectors[t])}}

\* the logged rule registers the key against the tag
RegistersTagKey(entry, tag, key) ==
    /\ entry.style # Null
    /\ key \in DOMAIN entry.style.obj
    /\ \E s \in DOMAIN entry.selectors :
          /\ ClassesOf(entry.selectors[s]) = <<>>
          /\ StartsWithTag(entry.selectors[s])
          /\ LeadingTag(entry.selectors[s]) = tag

LastForTagKey(i, tag, key) ==
    \A j \in DOMAIN log : j > i => ~RegistersTagKey(log[j], tag, key)

\* the element is of the tag and none of its class or tag+class entries
\* holds the key
TagDecides(sm, tagName, classList, tag, key) ==
    /\ toLowerCase(tagName) = tag
    /\ Defining(sm.byClass, "", classList, key) = <<>>
    /\ Defining(sm.byTagClass, tag \o ".", classList, key) = <<>>

InTagBucket(sm, call, tag, key, value) ==
    /\ tag \in DOMAIN sm.byTag
    /\ Get(sm.byTag[tag], key) = value
    /\ (call # Idle /\ TagDecides(sm, call.tagName, call.classList, tag, key))
       => Get(call.result, key) = value

\* C28: what follows the leading tag name of a target without a class is
\* ignored when the buckets are chosen.  A rule for p#x, a:hover or div>p is
\* registered in the by-tag entry of its leading tag (p, a, div): each of its
\* declarations that no later rule for the tag redefines is the by-tag
\* entry's value and is returned by the lookup of every element of that tag
\* whose classes define nothing for the key.
C28_QualifiersIgnored ==
    \A i \in DOMAIN log :
        \A sel \in QualifiedSelectors(log[i]) :
            \A key \in DOMAIN log[i].style.obj :
                LastForTagKey(i, LeadingTag(sel), key)
                => InTagBucket(styleMap, looked, LeadingTag(sel), key,
                               log[i].style.obj[key])

C28_Witness ==
    /\ looked # Idle
    /\ Len(log) = 3
    /\ log[1].node.prelude = "p"
    /\ log[2].node.prelude = "div>p"
    /\ log[3].node.prelude = "p#x"
    /\ looked.tagName = "p"
    /\ looked.classList = <<>>
    /\ looked.result["color"] = Str("red")
    /\ looked.result["textAlign"] = Str("left")
    /\ styleMap.byTag["div"]["color"] = Str("green")
    /\ DOMAIN styleMap.byTag = {"p", "div"}

-----------------------------------------------------------------------------
(* The conversion page: selecting a file and a page size, converting,
   previewing and downloading *)

MaxConversions == 2

\* the values of PAGE_SIZE_OPTIONS
PAGE_SIZE_OPTIONS == {"kdp-6x9", "kdp-5.5x8.5", "a4", "letter"}

\* a File of the file input: its name and its bytes, which are an EPUB with
\* a spine or something JSZip cannot load
File(name, data) == [name |-> name, data |-> data]
Epub(spine) == [spine |-> spine]
Corrupt == [corrupt |-> TRUE]

Files ==
    {File("a.epub", Epub(<<"cover", "one">>)),
     File("B.EPUB", Epub(<<"one", "thanks">>)),
     File("bad.epub", Corrupt),
     File("notes.txt", Corrupt)}

\* what the rejected promise of a server action call carries, and what
\* JSZip throws for bytes that are no zip archive
ThrownMessages == {"Failed to fetch"}
ZipError == "Corrupted zip"

\* selectedFile.name.toLowerCase().endsWith('.epub')
IsEpubName(name) == endsWith(toLowerCase(name), ".epub")

\* file.name.replace(/\.epub$/i, '.pdf')
DownloadName(name) ==
    IF IsEpubName(name) THEN slice(name, 1, Len(name) - 5) \o ".pdf" ELSE name

\* formData.append('epub', file); formData.append('pageSize', pageSize)
FormData(epub, size) == [epub |-> epub, pageSize |-> size]

\* the form data the page can submit
FormDatas == {FormData(f, size) : f \in {g \in Files : IsEpubName(g.name)},
                                  size \in PAGE_SIZE_OPTIONS}

\* the Page elements laid out at the A4 size when the pageSize field names it
Resized(result, size) ==
    IF result.success /\ size = "a4"
    THEN [success |-> TRUE,
          pdfBase64 |-> [i \in DOMAIN result.pdfBase64 |->
                            Page([width |-> 595, height |-> 842],
                                 result.pdfBase64[i].header,
                                 result.pdfBase64[i].chapters)]]
    ELSE result

\* a conversion that lays the pages out at the submitted page size
convertEpubToPdf_sized(formData) ==
    IF formData.epub = Null
    THEN [success |-> FALSE, error |-> "No EPUB file provided"]
    ELSE IF "spine" \notin DOMAIN formData.epub.data
    THEN [success |-> FALSE, error |-> ZipError]
    ELSE Resized(Converted(parseEpub(formData.epub.data.spine)), formData.pageSize)

\* convertEpubToPdf as a function of its form data: it reads the epub field
\* only; what parseEpub throws is caught and returned as the error
convertEpubToPdf(formData) ==
    IF formData.epub = Null
    THEN [success |-> FALSE, error |-> "No EPUB file provided"]
    ELSE IF "spine" \notin DOMAIN formData.epub.data
    THEN [success |-> FALSE, error |-> ZipError]
    ELSE Converted(parseEpub(formData.epub.data.spine))

\* the result of the server action for each form data the page can submit
ConvertResults == [formData \in FormDatas |-> convertEpubToPdf(formData)]

\* the pdfData state for a PDF
Pdf(pdfBase64) == [pdf |-> pdfBase64]

InitPage ==
    /\ file = Null
    /\ pageSize = "kdp-6x9"
    /\ status = ""
    /\ isConverting = FALSE
    /\ pdfData = Null
    /\ inFlight = Null
    /\ submitted = {}
    /\ shown = Idle
    /\ InitBuildIdle
    /\ InitMapIdle
    /\ InitCallIdle
    /\ InitTreeIdle
    /\ InitEpubIdle

\* the file input changes: a file with an .epub name, another file, or none
handleFileChange(selectedFile) ==
    /\ IF selectedFile # Undefined /\ IsEpubName(selectedFile.name)
       THEN /\ file' = selectedFile
            /\ status' = "Selected: " \o selectedFile.name
            /\ pdfData' = Null
       ELSE IF selectedFile # Undefined
       THEN /\ status' = "Please select an EPUB file"
            /\ file' = Null
            /\ UNCHANGED pdfData
       ELSE UNCHANGED <<file, status, pdfData>>
    /\ UNCHANGED <<pageSize, isConverting, inFlight, submitted, shown>>
    /\ UNCHANGED outsidePage

\* the select changes: setPageSize(e.target.value)
SetPageSize(value) ==
    /\ pageSize' = value
    /\ UNCHANGED <<file, status, isConverting, pdfData, inFlight, submitted, shown>>
    /\ UNCHANGED outsidePage

\* a click on Convert, which is disabled without a file and while a
\* conversion runs: handleConvert up to its await
handleConvert ==
    /\ file # Null
    /\ ~isConverting
    /\ Cardinality(submitted) < MaxConversions
    /\ isConverting' = TRUE
    /\ status' = "Converting..."
    /\ pdfData' = Null
    /\ inFlight' = FormData(file, pageSize)
    /\ UNCHANGED <<file, pageSize, submitted, shown>>
    /\ UNCHANGED outsidePage

\* handleConvert after its await, for the result the call returned
Settle(formData, result) ==
    /\ IF result.success /\ "pdfBase64" \in DOMAIN result
       THEN /\ pdfData' = Pdf(result.pdfBase64)
            /\ status' = "Done! Click Download to save your PDF."
       ELSE /\ status' = "Error: " \o (IF "error" \in DOMAIN result /\ result.error # ""
                                       THEN result.error ELSE "Unknown error")
            /\ UNCHANGED pdfData
    /\ isConverting' = FALSE
    /\ inFlight' = Null
    /\ submitted' = submitted \cup {[formData |-> formData, result |-> result]}
    /\ UNCHANGED <<file, pageSize, shown>>
    /\ UNCHANGED outsidePage

\* the awaited call returns
Resolve ==
    /\ inFlight # Null
    /\ Settle(inFlight, ConvertResults[inFlight])

\* the awaited call throws: the catch clause and the finally clause
Reject(message) ==
    /\ inFlight # Null
    /\ status' = "Error: " \o message
    /\ isConverting' = FALSE
    /\ inFlight' = Null
    /\ UNCHANGED <<file, pageSize, pdfData, submitted, shown>>
    /\ UNCHANGED outsidePage

\* a click on Preview, which is disabled without pdfData.  Neither Preview
\* nor Download changes the state of the page, so the clicks after the first
\* reach no state of the page the first does not reach: the blob is recorded
\* once.
handlePreview ==
    /\ pdfData # Null
    /\ shown = Idle
    /\ shown' = [preview |-> pdfData.pdf]
    /\ UNCHANGED <<file, pageSize, status, isConverting, pdfData, inFlight, submitted>>
    /\ UNCHANGED outsidePage

\* a click on Download, which is disabled without pdfData and returns early
\* without a file
handleDownload ==
    /\ pdfData # Null
    /\ shown = Idle
    /\ shown' = IF file = Null THEN shown
                ELSE [download |-> DownloadName(file.name), pdf |-> pdfData.pdf]
    /\ UNCHANGED <<file, pageSize, status, isConverting, pdfData, inFlight, submitted>>
    /\ UNCHANGED outsidePage

NextPage ==
    \/ \E selectedFile \in Files \cup {Undefined} : handleFileChange(selectedFile)
    \/ \E value \in PAGE_SIZE_OPTIONS : SetPageSize(value)
    \/ handleConvert
    \/ Resolve
    \/ \E message \in ThrownMessages : Reject(message)
    \/ handlePreview
    \/ handleDownload

SpecPage == InitPage /\ [][NextPage]_vars

-----------------------------------------------------------------------------
(* Claims about the conversion page *)

\* the PDF is what a conversion of the file returns, for some page size
IsPdfOf(pdf, f) ==
    \E size \in PAGE_SIZE_OPTIONS :
        /\ FormData(f, size) \in FormDatas
        /\ ConvertResults[FormData(f, size)].success
        /\ ConvertResults[FormData(f, size)].pdfBase64 = pdf

\* C29: under every interleaving of file selections, Convert clicks and
\* completions of the pending conversion, a non-null pdfData is the result
\* of converting the selected file, and a download saves under a file's name
\* the PDF of that file.
C29_PdfOfSelectedFile ==
    /\ pdfData # Null => (file # Null /\ IsPdfOf(pdfData.pdf, file))
    /\ "download" \in DOMAIN shown =>
          \E f \in Files : /\ DownloadName(f.name) = shown.download
                           /\ IsPdfOf(shown.pdf, f)

\* the sizes of the Page elements of a returned PDF
PageSizesOf(result) ==
    IF result.success
    THEN {result.pdfBase64[i].size : i \in DOMAIN result.pdfBase64}
    ELSE {}

\* C30: what convertEpubToPdf returns does not depend on the pageSize field
\* of the form data: two calls with the same EPUB file return the same result
\* whatever their page sizes, and every page of a returned PDF has the fixed
\* 6x9 size of 432 by 648 points.
C30_PageSizeIgnored ==
    /\ \A first \in submitted : \A second \in submitted :
          first.formData.epub = second.formData.epub
          => first.result = second.result
    /\ \A call \in submitted : PageSizesOf(call.result) \subseteq {KDP_6x9}

C30_Witness ==
    \E first \in submitted : \E second \in submitted :
        /\ first.formData.epub = second.formData.epub
        /\ first.formData.pageSize = "a4"
        /\ second.formData.pageSize = "kdp-6x9"
        /\ first.result.success
        /\ PageSizesOf(first.result) = {KDP_6x9}
        /\ Len(first.result.pdfBase64) = 2
====
